---------------------------- MODULE Spec2Model ----------------------------
(***************************************************************************)
(* A model of the units-and-values library: the unit enumerations of       *)
(* src/units.rs with their textual projections, their string parser and    *)
(* their two-step conversion through the base unit.                        *)
(*                                                                         *)
(* Magnitudes are Rust f64 values.  They are modelled bit-exactly as IEEE  *)
(* 754 binary64 numbers (round to nearest, ties to even), because several  *)
(* properties of the library (identity, round trip) are decided by the     *)
(* rounding of the divide-then-multiply pairs.  TLC's integers are 32 bits *)
(* wide, so a significand is kept as a little-endian sequence of 14-bit    *)
(* limbs.                                                                  *)
(***************************************************************************)
EXTENDS Integers, Sequences, FiniteSets, TLC

(***************************************************************************)
(* Natural numbers of any size: little-endian limb sequences, no leading   *)
(* (high) zero limb, zero is << >>.                                        *)
(***************************************************************************)
Base == 2^14

Max(x, y) == IF x >= y THEN x ELSE y

Min(x, y) == IF x <= y THEN x ELSE y

RECURSIVE Trim(_)
Trim(a) ==
    IF a = << >> THEN << >>
    ELSE IF a[Len(a)] = 0 THEN Trim(SubSeq(a, 1, Len(a) - 1))
    ELSE a

RECURSIVE NatOfInt(_)
NatOfInt(n) == IF n = 0 THEN << >> ELSE <<n % Base>> \o NatOfInt(n \div Base)

Limb(a, i) == IF i <= Len(a) THEN a[i] ELSE 0

\* a + b + c for a carry c in {0, 1}
RECURSIVE NatAddC(_, _, _, _)
NatAddC(a, b, c, i) ==
    IF i > Len(a) /\ i > Len(b) THEN (IF c = 0 THEN << >> ELSE <<c>>)
    ELSE LET s == Limb(a, i) + Limb(b, i) + c
         IN  <<s % Base>> \o NatAddC(a, b, s \div Base, i + 1)

NatAdd(a, b) == NatAddC(a, b, 0, 1)

\* a - b - c for a >= b + c, before trimming
RECURSIVE NatSubC(_, _, _, _)
NatSubC(a, b, c, i) ==
    IF i > Len(a) THEN << >>
    ELSE LET d == Limb(a, i) - Limb(b, i) - c
         IN  IF d < 0 THEN <<d + Base>> \o NatSubC(a, b, 1, i + 1)
             ELSE <<d>> \o NatSubC(a, b, 0, i + 1)

NatSub(a, b) == Trim(NatSubC(a, b, 0, 1))

\* -1, 0, 1 as a < b, a = b, a > b
RECURSIVE NatCmpFrom(_, _, _)
NatCmpFrom(a, b, i) ==
    IF i = 0 THEN 0
    ELSE IF a[i] < b[i] THEN -1
    ELSE IF a[i] > b[i] THEN 1
    ELSE NatCmpFrom(a, b, i - 1)

NatCmp(a, b) ==
    IF Len(a) < Len(b) THEN -1
    ELSE IF Len(a) > Len(b) THEN 1
    ELSE NatCmpFrom(a, b, Len(a))

\* a * k + c for a limb k
RECURSIVE NatMulLimb(_, _, _, _)
NatMulLimb(a, k, c, i) ==
    IF i > Len(a) THEN (IF c = 0 THEN << >> ELSE <<c>>)
    ELSE LET p == a[i] * k + c
         IN  <<p % Base>> \o NatMulLimb(a, k, p \div Base, i + 1)

ShiftLimbs(a, n) == IF a = << >> THEN << >> ELSE [i \in 1..n |-> 0] \o a

RECURSIVE NatMulFrom(_, _, _)
NatMulFrom(a, b, j) ==
    IF j > Len(b) THEN << >>
    ELSE NatAdd(Trim(NatMulLimb(a, b[j], 0, 1)),
                ShiftLimbs(NatMulFrom(a, b, j + 1), 1))

NatMul(a, b) == IF a = << >> \/ b = << >> THEN << >> ELSE NatMulFrom(a, b, 1)

RECURSIVE IntBitLen(_)
IntBitLen(n) == IF n = 0 THEN 0 ELSE 1 + IntBitLen(n \div 2)

BitLen(a) == IF a = << >> THEN 0 ELSE 14 * (Len(a) - 1) + IntBitLen(a[Len(a)])

\* a * 2^k
Shl(a, k) == ShiftLimbs(Trim(NatMulLimb(a, 2^(k % 14), 0, 1)), k \div 14)

\* floor(a / 2^k)
Shr(a, k) ==
    LET q == k \div 14
        p == 2^(k % 14)
        n == Len(a) - q
    IN  IF n <= 0 THEN << >>
        ELSE Trim([i \in 1..n |->
                     (a[q + i] \div p) + (Limb(a, q + i + 1) % p) * (Base \div p)])

\* bit i of a, bit 0 the lowest
Bit(a, i) == (Limb(a, i \div 14 + 1) \div 2^(i % 14)) % 2

\* a mod 2^k = 0
LowBitsZero(a, k) ==
    /\ \A i \in 1..Min(k \div 14, Len(a)) : a[i] = 0
    /\ Limb(a, k \div 14 + 1) % 2^(k % 14) = 0

(***************************************************************************)
(* f64: IEEE 754 binary64.  A value is [k, s, m, e]: kind "fin", "inf" or  *)
(* "nan", sign s (1 is negative), and for a finite value the significand m *)
(* and exponent e with value m * 2^e.  The form is canonical, so that two  *)
(* finite non-zero values are equal as f64 exactly when the records are    *)
(* equal: m has F64Precision bits, or fewer with e = F64MinExp (a          *)
(* subnormal); zero is m = << >>, e = 0.                                   *)
(***************************************************************************)
F64Precision == 53

F64MinExp == -1074

F64MaxExp == 971

F64Zero(s) == [k |-> "fin", s |-> s, m |-> << >>, e |-> 0]

F64Inf(s) == [k |-> "inf", s |-> s, m |-> << >>, e |-> 0]

F64NaN == [k |-> "nan", s |-> 0, m |-> << >>, e |-> 0]

IsZero(x) == x.k = "fin" /\ x.m = << >>

IsFinite(x) == x.k = "fin"

\* The finite f64 of sign s and magnitude m * 2^e, for m of at most F64Precision
\* bits: zero if m is zero, infinite if the exponent is out of range.
Finite(s, m, e) ==
    IF m = << >> THEN F64Zero(s)
    ELSE IF e > F64MaxExp THEN F64Inf(s)
    ELSE [k |-> "fin", s |-> s, m |-> m, e |-> e]

\* q has F64Precision bits or, after a round up to a power of two, one more.
RoundCarry(s, q, e) ==
    IF BitLen(q) > F64Precision THEN Finite(s, Shr(q, 1), e + 1)
    ELSE Finite(s, q, e)

\* Round to nearest, ties to even: q is the kept part, guard the first bit dropped,
\* rest whether anything was dropped below it.
RoundUp(s, q, e, guard, rest) ==
    RoundCarry(s, IF guard /\ (rest \/ Bit(q, 0) = 1) THEN NatAdd(q, <<1>>) ELSE q, e)

\* sh is the number of low bits of n that do not fit.
RoundShift(s, n, e, sticky, sh) ==
    IF sh <= 0 THEN Finite(s, Shl(n, -sh), e + sh)
    ELSE RoundUp(s, Shr(n, sh), e + sh, Bit(n, sh - 1) = 1,
                 sticky \/ ~LowBitsZero(n, sh - 1))

\* The f64 nearest to (n + t) * 2^e, where 0 < t < 1 if sticky and t = 0 if not.
RoundNat(s, n, e, sticky) ==
    IF n = << >> THEN F64Zero(s)
    ELSE RoundShift(s, n, e, sticky, Max(BitLen(n) - F64Precision, F64MinExp - e))

\* An i32-sized integer as f64 (exact).
F64FromInt(n) ==
    RoundNat(IF n < 0 THEN 1 ELSE 0, NatOfInt(IF n < 0 THEN -n ELSE n), 0, FALSE)

F64Neg(x) == IF x.k = "nan" THEN x ELSE [x EXCEPT !.s = 1 - x.s]

F64Abs(x) == IF x.k = "nan" THEN x ELSE [x EXCEPT !.s = 0]

\* Rust's == on f64: NaN equals nothing, -0.0 equals 0.0.
F64Eq(x, y) ==
    /\ x.k # "nan"
    /\ y.k # "nan"
    /\ (x = y \/ (IsZero(x) /\ IsZero(y)))

XorSign(x, y) == (x.s + y.s) % 2

\* x * y
F64Mul(x, y) ==
    IF x.k = "nan" \/ y.k = "nan" THEN F64NaN
    ELSE IF x.k = "inf" \/ y.k = "inf"
         THEN IF IsZero(x) \/ IsZero(y) THEN F64NaN ELSE F64Inf(XorSign(x, y))
    ELSE IF IsZero(x) \/ IsZero(y) THEN F64Zero(XorSign(x, y))
    ELSE RoundNat(XorSign(x, y), NatMul(x.m, y.m), x.e + y.e, FALSE)

\* Long division in base 2^14 (Knuth's algorithm D), for a divisor v of two limbs
\* or more whose top limb is at least Base / 2.
\* <<floor(r / v), r mod v>> for r < v * Base, from an estimate q that is not below;
\* p is v * q.
RECURSIVE DivDigitFix(_, _, _)
DivDigitTry(r, v, q, p) ==
    IF NatCmp(p, r) > 0 THEN DivDigitFix(r, v, q - 1)
    ELSE <<q, NatSub(r, p)>>

DivDigitFix(r, v, q) == DivDigitTry(r, v, q, Trim(NatMulLimb(v, q, 0, 1)))

DivDigit(r, v) ==
    DivDigitFix(r, v, Min((Limb(r, Len(v) + 1) * Base + Limb(r, Len(v))) \div v[Len(v)],
                          Base - 1))

\* <<floor((q * v + r) * Base^i / v), the remainder>> for r < v; d is the next
\* digit with its remainder.  Once the remainder is zero the digits left are zero.
RECURSIVE DivLimbs(_, _, _, _)
DivStep(d, v, q, i) ==
    IF d[2] = << >> THEN <<ShiftLimbs(Trim(<<d[1]>> \o q), i - 1), << >>>>
    ELSE DivLimbs(d[2], v, Trim(<<d[1]>> \o q), i - 1)

DivLimbs(r, v, q, i) ==
    IF i = 0 THEN <<q, r>>
    ELSE DivStep(DivDigit(ShiftLimbs(r, 1), v), v, q, i)

\* qr is <<quotient, remainder>>: the remainder is the sticky bit.
DivRound(s, qr, e) == RoundNat(s, qr[1], e, qr[2] # << >>)

DivQuot(s, b, d0, e) == DivRound(s, DivStep(d0, b, << >>, 5), e)

\* Both significands are scaled to 56 bits (four full limbs), by sx and sy; the
\* quotient of a * 2^56 by b has 56 or 57 bits, enough for the rounding.
DivAligned(s, a, b, e) == DivQuot(s, b, DivDigit(a, b), e)

DivScaled(x, y, sx, sy) ==
    DivAligned(XorSign(x, y), Shl(x.m, sx), Shl(y.m, sy), (x.e - sx) - (y.e - sy) - 56)

\* x / y
F64Div(x, y) ==
    IF x.k = "nan" \/ y.k = "nan" THEN F64NaN
    ELSE IF x.k = "inf"
         THEN IF y.k = "inf" THEN F64NaN ELSE F64Inf(XorSign(x, y))
    ELSE IF y.k = "inf" THEN F64Zero(XorSign(x, y))
    ELSE IF IsZero(y)
         THEN IF IsZero(x) THEN F64NaN ELSE F64Inf(XorSign(x, y))
    ELSE IF IsZero(x) THEN F64Zero(XorSign(x, y))
    ELSE DivScaled(x, y, 56 - BitLen(x.m), 56 - BitLen(y.m))

\* sa * a + sb * b at exponent e, for signs sa, sb and magnitudes a, b; c compares
\* a with b.
AddMagnitudes(sa, a, sb, b, e, c) ==
    IF sa # sb /\ c = 0 THEN F64Zero(0)
    ELSE RoundNat(IF c >= 0 THEN sa ELSE sb,
                  IF sa = sb THEN NatAdd(a, b)
                  ELSE IF c > 0 THEN NatSub(a, b) ELSE NatSub(b, a),
                  e, FALSE)

AddCompared(sa, a, sb, b, e) == AddMagnitudes(sa, a, sb, b, e, NatCmp(a, b))

\* x + y for finite non-zero x, y with x.e >= y.e.  A y more than 64 bits below x
\* only decides the rounding, as a 1 that far below does.
AddAligned(x, y) ==
    IF x.e - y.e > 64 THEN AddCompared(x.s, Shl(x.m, 64), y.s, <<1>>, x.e - 64)
    ELSE AddCompared(x.s, Shl(x.m, x.e - y.e), y.s, y.m, y.e)

\* x + y
F64Add(x, y) ==
    IF x.k = "nan" \/ y.k = "nan" THEN F64NaN
    ELSE IF x.k = "inf"
         THEN IF y.k = "inf" /\ y.s # x.s THEN F64NaN ELSE x
    ELSE IF y.k = "inf" THEN y
    ELSE IF IsZero(x)
         THEN IF IsZero(y) THEN F64Zero(IF x.s = 1 /\ y.s = 1 THEN 1 ELSE 0)
              ELSE y
    ELSE IF IsZero(y) THEN x
    ELSE AddAligned(IF x.e >= y.e THEN x ELSE y, IF x.e >= y.e THEN y ELSE x)

\* x - y
F64Sub(x, y) == F64Add(x, F64Neg(y))

\* The f64 a decimal literal denotes: digits / 10^scale (both exact in f64, and the
\* division is correctly rounded, as the compiler's parse of the literal is).
F64Lit(digits, scale) == F64Div(F64FromInt(digits), F64FromInt(10^scale))

(***************************************************************************)
(* trait UnitOfMeasure: Option<Self> and the provided method name_and_abbr *)
(***************************************************************************)
Some(unit) == <<"Some", unit>>

None == <<"None">>

\* a variant of name_and_abbr whose format string lacks the space
UnitOfMeasure_name_and_abbr_no_space(name, abbr) == name \o "(" \o abbr \o ")"

\* format!("{} ({})", self.name(), self.abbr())
UnitOfMeasure_name_and_abbr(name, abbr) == name \o " (" \o abbr \o ")"

(***************************************************************************)
(* enum LengthUnit and impl UnitOfMeasure for LengthUnit                   *)
(***************************************************************************)
LengthUnit ==
    {"Millimeters",
     "Centimeters",
     "Meters",
     "Kilometers",
     "Inches",
     "Feet",
     "Yards",
     "StatuteMiles",
     "NauticalMiles"}

\* a variant of LengthUnit::abbr in which NauticalMiles repeats the abbreviation
\* of StatuteMiles
LengthUnit_abbr_repeated(self) ==
    CASE self = "Millimeters" -> "mm"
      [] self = "Centimeters" -> "cm"
      [] self = "Meters" -> "m"
      [] self = "Kilometers" -> "km"
      [] self = "Inches" -> "in"
      [] self = "Feet" -> "ft"
      [] self = "Yards" -> "yd"
      [] self = "StatuteMiles" -> "mi"
      [] self = "NauticalMiles" -> "mi"

LengthUnit_abbr(self) ==
    CASE self = "Millimeters" -> "mm"
      [] self = "Centimeters" -> "cm"
      [] self = "Meters" -> "m"
      [] self = "Kilometers" -> "km"
      [] self = "Inches" -> "in"
      [] self = "Feet" -> "ft"
      [] self = "Yards" -> "yd"
      [] self = "StatuteMiles" -> "mi"
      [] self = "NauticalMiles" -> "nmi"

LengthUnit_name(self) ==
    CASE self = "Millimeters" -> "Millimeters"
      [] self = "Centimeters" -> "Centimeters"
      [] self = "Meters" -> "Meters"
      [] self = "Kilometers" -> "Kilometers"
      [] self = "Inches" -> "Inches"
      [] self = "Feet" -> "Feet"
      [] self = "Yards" -> "Yards"
      [] self = "StatuteMiles" -> "Statute Miles"
      [] self = "NauticalMiles" -> "Nautical Miles"

\* the trait's provided method, which the impl does not override
LengthUnit_name_and_abbr(self) ==
    UnitOfMeasure_name_and_abbr(LengthUnit_name(self), LengthUnit_abbr(self))

\* let length_meters = match self { ... }
LengthUnit_length_meters(self, value) ==
    CASE self = "Millimeters" -> F64Div(value, F64FromInt(1000))
      [] self = "Centimeters" -> F64Div(value, F64FromInt(100))
      [] self = "Meters" -> value
      [] self = "Kilometers" -> F64Mul(value, F64FromInt(1000))
      [] self = "Inches" -> F64Div(value, F64Lit(393701, 4))
      [] self = "Feet" -> F64Div(value, F64Lit(328084, 5))
      [] self = "Yards" -> F64Div(value, F64Lit(109361, 5))
      [] self = "StatuteMiles" -> F64Div(value, F64Lit(621371, 9))
      [] self = "NauticalMiles" -> F64Div(value, F64Lit(539957, 9))

\* a variant of LengthUnit::convert with two digits of the feet constant exchanged
LengthUnit_length_output_feet_typo(to_unit, length_meters) ==
    CASE to_unit = "Millimeters" -> F64Mul(length_meters, F64FromInt(1000))
      [] to_unit = "Centimeters" -> F64Mul(length_meters, F64FromInt(100))
      [] to_unit = "Meters" -> length_meters
      [] to_unit = "Kilometers" -> F64Div(length_meters, F64FromInt(1000))
      [] to_unit = "Inches" -> F64Mul(length_meters, F64Lit(393701, 4))
      [] to_unit = "Feet" -> F64Mul(length_meters, F64Lit(328804, 5))
      [] to_unit = "Yards" -> F64Mul(length_meters, F64Lit(109361, 5))
      [] to_unit = "StatuteMiles" -> F64Mul(length_meters, F64Lit(621371, 9))
      [] to_unit = "NauticalMiles" -> F64Mul(length_meters, F64Lit(539957, 9))

\* let length_output = match to_unit { ... }
LengthUnit_length_output(to_unit, length_meters) ==
    CASE to_unit = "Millimeters" -> F64Mul(length_meters, F64FromInt(1000))
      [] to_unit = "Centimeters" -> F64Mul(length_meters, F64FromInt(100))
      [] to_unit = "Meters" -> length_meters
      [] to_unit = "Kilometers" -> F64Div(length_meters, F64FromInt(1000))
      [] to_unit = "Inches" -> F64Mul(length_meters, F64Lit(393701, 4))
      [] to_unit = "Feet" -> F64Mul(length_meters, F64Lit(328084, 5))
      [] to_unit = "Yards" -> F64Mul(length_meters, F64Lit(109361, 5))
      [] to_unit = "StatuteMiles" -> F64Mul(length_meters, F64Lit(621371, 9))
      [] to_unit = "NauticalMiles" -> F64Mul(length_meters, F64Lit(539957, 9))

LengthUnit_convert(self, value, to_unit) ==
    LengthUnit_length_output(to_unit, LengthUnit_length_meters(self, value))

LengthUnit_from_str(unit_str) ==
    IF \/ unit_str = LengthUnit_abbr("Millimeters")
       \/ unit_str = LengthUnit_name("Millimeters")
       \/ unit_str = LengthUnit_name_and_abbr("Millimeters")
    THEN Some("Millimeters")
    ELSE IF \/ unit_str = LengthUnit_abbr("Centimeters")
            \/ unit_str = LengthUnit_name("Centimeters")
            \/ unit_str = LengthUnit_name_and_abbr("Centimeters")
    THEN Some("Centimeters")
    ELSE IF \/ unit_str = LengthUnit_abbr("Meters")
            \/ unit_str = LengthUnit_name("Meters")
            \/ unit_str = LengthUnit_name_and_abbr("Meters")
    THEN Some("Meters")
    ELSE IF \/ unit_str = LengthUnit_abbr("Kilometers")
            \/ unit_str = LengthUnit_name("Kilometers")
            \/ unit_str = LengthUnit_name_and_abbr("Kilometers")
    THEN Some("Kilometers")
    ELSE IF \/ unit_str = LengthUnit_abbr("Inches")
            \/ unit_str = LengthUnit_name("Inches")
            \/ unit_str = LengthUnit_name_and_abbr("Inches")
    THEN Some("Inches")
    ELSE IF \/ unit_str = LengthUnit_abbr("Feet")
            \/ unit_str = LengthUnit_name("Feet")
            \/ unit_str = LengthUnit_name_and_abbr("Feet")
    THEN Some("Feet")
    ELSE IF \/ unit_str = LengthUnit_abbr("Yards")
            \/ unit_str = LengthUnit_name("Yards")
            \/ unit_str = LengthUnit_name_and_abbr("Yards")
    THEN Some("Yards")
    ELSE IF \/ unit_str = LengthUnit_abbr("StatuteMiles")
            \/ unit_str = LengthUnit_name("StatuteMiles")
            \/ unit_str = LengthUnit_name_and_abbr("StatuteMiles")
    THEN Some("StatuteMiles")
    ELSE IF \/ unit_str = LengthUnit_abbr("NauticalMiles")
            \/ unit_str = LengthUnit_name("NauticalMiles")
            \/ unit_str = LengthUnit_name_and_abbr("NauticalMiles")
    THEN Some("NauticalMiles")
    ELSE None

LengthUnit_default == "Meters"

(***************************************************************************)
(* enum MassUnit and impl UnitOfMeasure for MassUnit                       *)
(***************************************************************************)
MassUnit ==
    {"Kilograms",
     "PoundsMass"}

MassUnit_abbr(self) ==
    CASE self = "Kilograms" -> "kg"
      [] self = "PoundsMass" -> "lb"

MassUnit_name(self) ==
    CASE self = "Kilograms" -> "Kilograms"
      [] self = "PoundsMass" -> "Pounds"

\* the trait's provided method, which the impl does not override
MassUnit_name_and_abbr(self) ==
    UnitOfMeasure_name_and_abbr(MassUnit_name(self), MassUnit_abbr(self))

\* a variant of MassUnit::convert whose pounds arm multiplies on the way to the base
MassUnit_mass_kilograms_multiplied(self, value) ==
    CASE self = "Kilograms" -> value
      [] self = "PoundsMass" -> F64Mul(value, F64Lit(220462, 5))

\* let mass_kilograms = match self { ... }
MassUnit_mass_kilograms(self, value) ==
    CASE self = "Kilograms" -> value
      [] self = "PoundsMass" -> F64Div(value, F64Lit(220462, 5))

\* let mass_output = match to_unit { ... }
MassUnit_mass_output(to_unit, mass_kilograms) ==
    CASE to_unit = "Kilograms" -> mass_kilograms
      [] to_unit = "PoundsMass" -> F64Mul(mass_kilograms, F64Lit(220462, 5))

MassUnit_convert(self, value, to_unit) ==
    MassUnit_mass_output(to_unit, MassUnit_mass_kilograms(self, value))

\* a variant of MassUnit::from_str that compares with literals of its own, one of
\* which has drifted from MassUnit::abbr
MassUnit_from_str_literals(unit_str) ==
    IF \/ unit_str = "kg"
       \/ unit_str = "Kilograms"
       \/ unit_str = "Kilograms (kg)"
    THEN Some("Kilograms")
    ELSE IF \/ unit_str = "lbs"
            \/ unit_str = "Pounds"
            \/ unit_str = "Pounds (lbs)"
    THEN Some("PoundsMass")
    ELSE None

MassUnit_from_str(unit_str) ==
    IF \/ unit_str = MassUnit_abbr("Kilograms")
       \/ unit_str = MassUnit_name("Kilograms")
       \/ unit_str = MassUnit_name_and_abbr("Kilograms")
    THEN Some("Kilograms")
    ELSE IF \/ unit_str = MassUnit_abbr("PoundsMass")
            \/ unit_str = MassUnit_name("PoundsMass")
            \/ unit_str = MassUnit_name_and_abbr("PoundsMass")
    THEN Some("PoundsMass")
    ELSE None

MassUnit_default == "Kilograms"

(***************************************************************************)
(* enum TimeUnit and impl UnitOfMeasure for TimeUnit                       *)
(***************************************************************************)
TimeUnit ==
    {"Seconds",
     "Minutes",
     "Hours",
     "Days",
     "Weeks",
     "Years"}

\* an abbr in which Minutes is abbreviated by the name of Hours
TimeUnit_abbr_minutes_as_hours(self) ==
    CASE self = "Seconds" -> "s"
      [] self = "Minutes" -> "Hours"
      [] self = "Hours" -> "hr"
      [] self = "Days" -> "d"
      [] self = "Weeks" -> "wk"
      [] self = "Years" -> "yr"

TimeUnit_abbr(self) ==
    CASE self = "Seconds" -> "s"
      [] self = "Minutes" -> "min"
      [] self = "Hours" -> "hr"
      [] self = "Days" -> "d"
      [] self = "Weeks" -> "wk"
      [] self = "Years" -> "yr"

TimeUnit_name(self) ==
    CASE self = "Seconds" -> "Seconds"
      [] self = "Minutes" -> "Minutes"
      [] self = "Hours" -> "Hours"
      [] self = "Days" -> "Days"
      [] self = "Weeks" -> "Weeks"
      [] self = "Years" -> "Years"

\* the trait's provided method, which the impl does not override
TimeUnit_name_and_abbr(self) ==
    UnitOfMeasure_name_and_abbr(TimeUnit_name(self), TimeUnit_abbr(self))

\* let time_seconds = match self { ... }
TimeUnit_time_seconds(self, value) ==
    CASE self = "Seconds" -> value
      [] self = "Minutes" -> F64Mul(value, F64FromInt(60))
      [] self = "Hours" -> F64Mul(value, F64FromInt(3600))
      [] self = "Days" -> F64Mul(value, F64FromInt(86400))
      [] self = "Weeks" -> F64Mul(value, F64FromInt(604800))
      [] self = "Years" -> F64Mul(value, F64FromInt(31536000))

\* a variant of TimeUnit::convert with two digits of the weeks constant exchanged
TimeUnit_time_output_weeks_typo(to_unit, time_seconds) ==
    CASE to_unit = "Seconds" -> time_seconds
      [] to_unit = "Minutes" -> F64Div(time_seconds, F64FromInt(60))
      [] to_unit = "Hours" -> F64Div(time_seconds, F64FromInt(3600))
      [] to_unit = "Days" -> F64Div(time_seconds, F64FromInt(86400))
      [] to_unit = "Weeks" -> F64Div(time_seconds, F64FromInt(608400))
      [] to_unit = "Years" -> F64Div(time_seconds, F64FromInt(31536000))

\* let time_output = match to_unit { ... }
TimeUnit_time_output(to_unit, time_seconds) ==
    CASE to_unit = "Seconds" -> time_seconds
      [] to_unit = "Minutes" -> F64Div(time_seconds, F64FromInt(60))
      [] to_unit = "Hours" -> F64Div(time_seconds, F64FromInt(3600))
      [] to_unit = "Days" -> F64Div(time_seconds, F64FromInt(86400))
      [] to_unit = "Weeks" -> F64Div(time_seconds, F64FromInt(604800))
      [] to_unit = "Years" -> F64Div(time_seconds, F64FromInt(31536000))

TimeUnit_convert(self, value, to_unit) ==
    TimeUnit_time_output(to_unit, TimeUnit_time_seconds(self, value))

TimeUnit_from_str(unit_str) ==
    IF \/ unit_str = TimeUnit_abbr("Seconds")
       \/ unit_str = TimeUnit_name("Seconds")
       \/ unit_str = TimeUnit_name_and_abbr("Seconds")
    THEN Some("Seconds")
    ELSE IF \/ unit_str = TimeUnit_abbr("Minutes")
            \/ unit_str = TimeUnit_name("Minutes")
            \/ unit_str = TimeUnit_name_and_abbr("Minutes")
    THEN Some("Minutes")
    ELSE IF \/ unit_str = TimeUnit_abbr("Hours")
            \/ unit_str = TimeUnit_name("Hours")
            \/ unit_str = TimeUnit_name_and_abbr("Hours")
    THEN Some("Hours")
    ELSE IF \/ unit_str = TimeUnit_abbr("Days")
            \/ unit_str = TimeUnit_name("Days")
            \/ unit_str = TimeUnit_name_and_abbr("Days")
    THEN Some("Days")
    ELSE IF \/ unit_str = TimeUnit_abbr("Weeks")
            \/ unit_str = TimeUnit_name("Weeks")
            \/ unit_str = TimeUnit_name_and_abbr("Weeks")
    THEN Some("Weeks")
    ELSE IF \/ unit_str = TimeUnit_abbr("Years")
            \/ unit_str = TimeUnit_name("Years")
            \/ unit_str = TimeUnit_name_and_abbr("Years")
    THEN Some("Years")
    ELSE None

TimeUnit_default == "Seconds"

(***************************************************************************)
(* enum TemperatureUnit and impl UnitOfMeasure for TemperatureUnit         *)
(***************************************************************************)
TemperatureUnit ==
    {"Kelvin",
     "Celsius",
     "Fahrenheit",
     "Rankine"}

TemperatureUnit_abbr(self) ==
    CASE self = "Kelvin" -> "K"
      [] self = "Celsius" -> "°C"
      [] self = "Fahrenheit" -> "°F"
      [] self = "Rankine" -> "°R"

TemperatureUnit_name(self) ==
    CASE self = "Kelvin" -> "Kelvin"
      [] self = "Celsius" -> "Celsius"
      [] self = "Fahrenheit" -> "Fahrenheit"
      [] self = "Rankine" -> "Rankine"

\* the trait's provided method, which the impl does not override
TemperatureUnit_name_and_abbr(self) ==
    UnitOfMeasure_name_and_abbr(TemperatureUnit_name(self), TemperatureUnit_abbr(self))

\* a variant of TemperatureUnit::convert whose Fahrenheit arm lacks the parentheses:
\* value + 459.67 * 5.0 / 9.0
TemperatureUnit_temp_kelvin_unparenthesised(self, value) ==
    CASE self = "Kelvin" -> value
      [] self = "Celsius" -> F64Add(value, F64Lit(27315, 2))
      [] self = "Fahrenheit" ->
            F64Add(value, F64Div(F64Mul(F64Lit(45967, 2), F64FromInt(5)), F64FromInt(9)))
      [] self = "Rankine" -> F64Div(F64Mul(value, F64FromInt(5)), F64FromInt(9))

\* let temp_kelvin = match self { ... }
TemperatureUnit_temp_kelvin(self, value) ==
    CASE self = "Kelvin" -> value
      [] self = "Celsius" -> F64Add(value, F64Lit(27315, 2))
      [] self = "Fahrenheit" -> F64Div(F64Mul(F64Add(value, F64Lit(45967, 2)), F64FromInt(5)), F64FromInt(9))
      [] self = "Rankine" -> F64Div(F64Mul(value, F64FromInt(5)), F64FromInt(9))

\* a variant of TemperatureUnit::convert whose Celsius arm subtracts 273.16
TemperatureUnit_temp_output_celsius_typo(to_unit, temp_kelvin) ==
    CASE to_unit = "Kelvin" -> temp_kelvin
      [] to_unit = "Celsius" -> F64Sub(temp_kelvin, F64Lit(27316, 2))
      [] to_unit = "Fahrenheit" ->
            F64Sub(F64Div(F64Mul(temp_kelvin, F64FromInt(9)), F64FromInt(5)), F64Lit(45967, 2))
      [] to_unit = "Rankine" -> F64Div(F64Mul(temp_kelvin, F64FromInt(9)), F64FromInt(5))

\* a variant of TemperatureUnit::convert whose Fahrenheit arm subtracts 459.76, an
\* offset that no longer matches the pivot's 273.15
TemperatureUnit_temp_output_fahrenheit_typo(to_unit, temp_kelvin) ==
    CASE to_unit = "Kelvin" -> temp_kelvin
      [] to_unit = "Celsius" -> F64Sub(temp_kelvin, F64Lit(27315, 2))
      [] to_unit = "Fahrenheit" ->
            F64Sub(F64Div(F64Mul(temp_kelvin, F64FromInt(9)), F64FromInt(5)), F64Lit(45976, 2))
      [] to_unit = "Rankine" -> F64Div(F64Mul(temp_kelvin, F64FromInt(9)), F64FromInt(5))

\* let temp_output = match to_unit { ... }
TemperatureUnit_temp_output(to_unit, temp_kelvin) ==
    CASE to_unit = "Kelvin" -> temp_kelvin
      [] to_unit = "Celsius" -> F64Sub(temp_kelvin, F64Lit(27315, 2))
      [] to_unit = "Fahrenheit" -> F64Sub(F64Div(F64Mul(temp_kelvin, F64FromInt(9)), F64FromInt(5)), F64Lit(45967, 2))
      [] to_unit = "Rankine" -> F64Div(F64Mul(temp_kelvin, F64FromInt(9)), F64FromInt(5))

TemperatureUnit_convert(self, value, to_unit) ==
    TemperatureUnit_temp_output(to_unit, TemperatureUnit_temp_kelvin(self, value))

TemperatureUnit_from_str(unit_str) ==
    IF \/ unit_str = TemperatureUnit_abbr("Kelvin")
       \/ unit_str = TemperatureUnit_name("Kelvin")
       \/ unit_str = TemperatureUnit_name_and_abbr("Kelvin")
    THEN Some("Kelvin")
    ELSE IF \/ unit_str = TemperatureUnit_abbr("Celsius")
            \/ unit_str = TemperatureUnit_name("Celsius")
            \/ unit_str = TemperatureUnit_name_and_abbr("Celsius")
    THEN Some("Celsius")
    ELSE IF \/ unit_str = TemperatureUnit_abbr("Fahrenheit")
            \/ unit_str = TemperatureUnit_name("Fahrenheit")
            \/ unit_str = TemperatureUnit_name_and_abbr("Fahrenheit")
    THEN Some("Fahrenheit")
    ELSE IF \/ unit_str = TemperatureUnit_abbr("Rankine")
            \/ unit_str = TemperatureUnit_name("Rankine")
            \/ unit_str = TemperatureUnit_name_and_abbr("Rankine")
    THEN Some("Rankine")
    ELSE None

\* a variant of TemperatureUnit::default that returns the everyday unit
TemperatureUnit_default_celsius == "Celsius"

TemperatureUnit_default == "Kelvin"

(***************************************************************************)
(* enum VelocityUnit and impl UnitOfMeasure for VelocityUnit               *)
(***************************************************************************)
VelocityUnit ==
    {"MetersPerSecond",
     "KilometersPerHour",
     "FeetPerSecond",
     "MilesPerHour",
     "Knots"}

VelocityUnit_abbr(self) ==
    CASE self = "MetersPerSecond" -> "m/s"
      [] self = "KilometersPerHour" -> "km/h"
      [] self = "FeetPerSecond" -> "ft/s"
      [] self = "MilesPerHour" -> "mph"
      [] self = "Knots" -> "kn"

VelocityUnit_name(self) ==
    CASE self = "MetersPerSecond" -> "Meters per Second"
      [] self = "KilometersPerHour" -> "Kilometers per Hour"
      [] self = "FeetPerSecond" -> "Feet per Second"
      [] self = "MilesPerHour" -> "Miles per Hour"
      [] self = "Knots" -> "Knots"

\* the trait's provided method, which the impl does not override
VelocityUnit_name_and_abbr(self) ==
    UnitOfMeasure_name_and_abbr(VelocityUnit_name(self), VelocityUnit_abbr(self))

\* let velocity_meters_per_second = match self { ... }
VelocityUnit_velocity_meters_per_second(self, value) ==
    CASE self = "MetersPerSecond" -> value
      [] self = "KilometersPerHour" -> F64Div(value, F64Lit(36, 1))
      [] self = "FeetPerSecond" -> F64Div(value, F64Lit(328084, 5))
      [] self = "MilesPerHour" -> F64Div(value, F64Lit(223694, 5))
      [] self = "Knots" -> F64Div(value, F64Lit(194384, 5))

\* let velocity_output = match to_unit { ... }
VelocityUnit_velocity_output(to_unit, velocity_meters_per_second) ==
    CASE to_unit = "MetersPerSecond" -> velocity_meters_per_second
      [] to_unit = "KilometersPerHour" -> F64Mul(velocity_meters_per_second, F64Lit(36, 1))
      [] to_unit = "FeetPerSecond" -> F64Mul(velocity_meters_per_second, F64Lit(328084, 5))
      [] to_unit = "MilesPerHour" -> F64Mul(velocity_meters_per_second, F64Lit(223694, 5))
      [] to_unit = "Knots" -> F64Mul(velocity_meters_per_second, F64Lit(194384, 5))

VelocityUnit_convert(self, value, to_unit) ==
    VelocityUnit_velocity_output(to_unit, VelocityUnit_velocity_meters_per_second(self, value))

VelocityUnit_from_str(unit_str) ==
    IF \/ unit_str = VelocityUnit_abbr("MetersPerSecond")
       \/ unit_str = VelocityUnit_name("MetersPerSecond")
       \/ unit_str = VelocityUnit_name_and_abbr("MetersPerSecond")
    THEN Some("MetersPerSecond")
    ELSE IF \/ unit_str = VelocityUnit_abbr("KilometersPerHour")
            \/ unit_str = VelocityUnit_name("KilometersPerHour")
            \/ unit_str = VelocityUnit_name_and_abbr("KilometersPerHour")
    THEN Some("KilometersPerHour")
    ELSE IF \/ unit_str = VelocityUnit_abbr("FeetPerSecond")
            \/ unit_str = VelocityUnit_name("FeetPerSecond")
            \/ unit_str = VelocityUnit_name_and_abbr("FeetPerSecond")
    THEN Some("FeetPerSecond")
    ELSE IF \/ unit_str = VelocityUnit_abbr("MilesPerHour")
            \/ unit_str = VelocityUnit_name("MilesPerHour")
            \/ unit_str = VelocityUnit_name_and_abbr("MilesPerHour")
    THEN Some("MilesPerHour")
    ELSE IF \/ unit_str = VelocityUnit_abbr("Knots")
            \/ unit_str = VelocityUnit_name("Knots")
            \/ unit_str = VelocityUnit_name_and_abbr("Knots")
    THEN Some("Knots")
    ELSE None

\* a default() that returns the unit the struct's comment names
VelocityUnit_default_knots == "Knots"

VelocityUnit_default == "MetersPerSecond"

(***************************************************************************)
(* enum ForceUnit and impl UnitOfMeasure for ForceUnit                     *)
(***************************************************************************)
ForceUnit ==
    {"Newtons",
     "PoundsForce",
     "KilogramsForce"}

ForceUnit_abbr(self) ==
    CASE self = "Newtons" -> "N"
      [] self = "PoundsForce" -> "lbf"
      [] self = "KilogramsForce" -> "kgf"

ForceUnit_name(self) ==
    CASE self = "Newtons" -> "Newtons"
      [] self = "PoundsForce" -> "Pounds Force"
      [] self = "KilogramsForce" -> "Kilograms Force"

\* the trait's provided method, which the impl does not override
ForceUnit_name_and_abbr(self) ==
    UnitOfMeasure_name_and_abbr(ForceUnit_name(self), ForceUnit_abbr(self))

\* let force_newtons = match self { ... }
ForceUnit_force_newtons(self, value) ==
    CASE self = "Newtons" -> value
      [] self = "PoundsForce" -> F64Mul(value, F64Lit(444822, 5))
      [] self = "KilogramsForce" -> F64Mul(value, F64Lit(980665, 5))

\* a variant of ForceUnit::convert whose Newtons arm repeats the arm below it
ForceUnit_force_output_shifted(to_unit, force_newtons) ==
    CASE to_unit = "Newtons" -> F64Div(force_newtons, F64Lit(444822, 5))
      [] to_unit = "PoundsForce" -> F64Div(force_newtons, F64Lit(444822, 5))
      [] to_unit = "KilogramsForce" -> F64Div(force_newtons, F64Lit(980665, 5))

\* let force_output = match to_unit { ... }
ForceUnit_force_output(to_unit, force_newtons) ==
    CASE to_unit = "Newtons" -> force_newtons
      [] to_unit = "PoundsForce" -> F64Div(force_newtons, F64Lit(444822, 5))
      [] to_unit = "KilogramsForce" -> F64Div(force_newtons, F64Lit(980665, 5))

ForceUnit_convert(self, value, to_unit) ==
    ForceUnit_force_output(to_unit, ForceUnit_force_newtons(self, value))

\* a variant of ForceUnit::from_str that also takes the abbreviation N in lower case
ForceUnit_from_str_lower_case(unit_str) ==
    IF \/ unit_str = ForceUnit_abbr("Newtons")
       \/ unit_str = "n"
       \/ unit_str = ForceUnit_name("Newtons")
       \/ unit_str = ForceUnit_name_and_abbr("Newtons")
    THEN Some("Newtons")
    ELSE IF \/ unit_str = ForceUnit_abbr("PoundsForce")
            \/ unit_str = ForceUnit_name("PoundsForce")
            \/ unit_str = ForceUnit_name_and_abbr("PoundsForce")
    THEN Some("PoundsForce")
    ELSE IF \/ unit_str = ForceUnit_abbr("KilogramsForce")
            \/ unit_str = ForceUnit_name("KilogramsForce")
            \/ unit_str = ForceUnit_name_and_abbr("KilogramsForce")
    THEN Some("KilogramsForce")
    ELSE None

ForceUnit_from_str(unit_str) ==
    IF \/ unit_str = ForceUnit_abbr("Newtons")
       \/ unit_str = ForceUnit_name("Newtons")
       \/ unit_str = ForceUnit_name_and_abbr("Newtons")
    THEN Some("Newtons")
    ELSE IF \/ unit_str = ForceUnit_abbr("PoundsForce")
            \/ unit_str = ForceUnit_name("PoundsForce")
            \/ unit_str = ForceUnit_name_and_abbr("PoundsForce")
    THEN Some("PoundsForce")
    ELSE IF \/ unit_str = ForceUnit_abbr("KilogramsForce")
            \/ unit_str = ForceUnit_name("KilogramsForce")
            \/ unit_str = ForceUnit_name_and_abbr("KilogramsForce")
    THEN Some("KilogramsForce")
    ELSE None

ForceUnit_default == "Newtons"

(***************************************************************************)
(* enum PressureUnit and impl UnitOfMeasure for PressureUnit               *)
(***************************************************************************)
PressureUnit ==
    {"Pascals",
     "Kilopascals",
     "Megapascals",
     "Bars",
     "PoundsPerSquareInch",
     "Atmospheres",
     "Torrs"}

PressureUnit_abbr(self) ==
    CASE self = "Pascals" -> "Pa"
      [] self = "Kilopascals" -> "kPa"
      [] self = "Megapascals" -> "MPa"
      [] self = "Bars" -> "bar"
      [] self = "PoundsPerSquareInch" -> "psi"
      [] self = "Atmospheres" -> "atm"
      [] self = "Torrs" -> "Torr"

PressureUnit_name(self) ==
    CASE self = "Pascals" -> "Pascals"
      [] self = "Kilopascals" -> "Kilopascals"
      [] self = "Megapascals" -> "Megapascals"
      [] self = "Bars" -> "Bars"
      [] self = "PoundsPerSquareInch" -> "Pounds per Square Inch"
      [] self = "Atmospheres" -> "Atmospheres"
      [] self = "Torrs" -> "Torrs"

\* the trait's provided method, which the impl does not override
PressureUnit_name_and_abbr(self) ==
    UnitOfMeasure_name_and_abbr(PressureUnit_name(self), PressureUnit_abbr(self))

\* let pressure_pascals = match self { ... }
PressureUnit_pressure_pascals(self, value) ==
    CASE self = "Pascals" -> value
      [] self = "Kilopascals" -> F64Mul(value, F64FromInt(1000))
      [] self = "Megapascals" -> F64Mul(value, F64FromInt(1000000))
      [] self = "Bars" -> F64Mul(value, F64FromInt(100000))
      [] self = "PoundsPerSquareInch" -> F64Mul(value, F64Lit(689476, 2))
      [] self = "Atmospheres" -> F64Mul(value, F64FromInt(101325))
      [] self = "Torrs" -> F64Mul(value, F64Lit(133322, 3))

\* a target table whose factor for Bars has lost a zero
PressureUnit_pressure_output_bars_typo(to_unit, pressure_pascals) ==
    CASE to_unit = "Pascals" -> pressure_pascals
      [] to_unit = "Kilopascals" -> F64Div(pressure_pascals, F64FromInt(1000))
      [] to_unit = "Megapascals" -> F64Div(pressure_pascals, F64FromInt(1000000))
      [] to_unit = "Bars" -> F64Div(pressure_pascals, F64FromInt(10000))
      [] to_unit = "PoundsPerSquareInch" -> F64Div(pressure_pascals, F64Lit(689476, 2))
      [] to_unit = "Atmospheres" -> F64Div(pressure_pascals, F64FromInt(101325))
      [] to_unit = "Torrs" -> F64Div(pressure_pascals, F64Lit(133322, 3))

\* let pressure_output = match to_unit { ... }
PressureUnit_pressure_output(to_unit, pressure_pascals) ==
    CASE to_unit = "Pascals" -> pressure_pascals
      [] to_unit = "Kilopascals" -> F64Div(pressure_pascals, F64FromInt(1000))
      [] to_unit = "Megapascals" -> F64Div(pressure_pascals, F64FromInt(1000000))
      [] to_unit = "Bars" -> F64Div(pressure_pascals, F64FromInt(100000))
      [] to_unit = "PoundsPerSquareInch" -> F64Div(pressure_pascals, F64Lit(689476, 2))
      [] to_unit = "Atmospheres" -> F64Div(pressure_pascals, F64FromInt(101325))
      [] to_unit = "Torrs" -> F64Div(pressure_pascals, F64Lit(133322, 3))

PressureUnit_convert(self, value, to_unit) ==
    PressureUnit_pressure_output(to_unit, PressureUnit_pressure_pascals(self, value))

PressureUnit_from_str(unit_str) ==
    IF \/ unit_str = PressureUnit_abbr("Pascals")
       \/ unit_str = PressureUnit_name("Pascals")
       \/ unit_str = PressureUnit_name_and_abbr("Pascals")
    THEN Some("Pascals")
    ELSE IF \/ unit_str = PressureUnit_abbr("Kilopascals")
            \/ unit_str = PressureUnit_name("Kilopascals")
            \/ unit_str = PressureUnit_name_and_abbr("Kilopascals")
    THEN Some("Kilopascals")
    ELSE IF \/ unit_str = PressureUnit_abbr("Megapascals")
            \/ unit_str = PressureUnit_name("Megapascals")
            \/ unit_str = PressureUnit_name_and_abbr("Megapascals")
    THEN Some("Megapascals")
    ELSE IF \/ unit_str = PressureUnit_abbr("Bars")
            \/ unit_str = PressureUnit_name("Bars")
            \/ unit_str = PressureUnit_name_and_abbr("Bars")
    THEN Some("Bars")
    ELSE IF \/ unit_str = PressureUnit_abbr("PoundsPerSquareInch")
            \/ unit_str = PressureUnit_name("PoundsPerSquareInch")
            \/ unit_str = PressureUnit_name_and_abbr("PoundsPerSquareInch")
    THEN Some("PoundsPerSquareInch")
    ELSE IF \/ unit_str = PressureUnit_abbr("Atmospheres")
            \/ unit_str = PressureUnit_name("Atmospheres")
            \/ unit_str = PressureUnit_name_and_abbr("Atmospheres")
    THEN Some("Atmospheres")
    ELSE IF \/ unit_str = PressureUnit_abbr("Torrs")
            \/ unit_str = PressureUnit_name("Torrs")
            \/ unit_str = PressureUnit_name_and_abbr("Torrs")
    THEN Some("Torrs")
    ELSE None

PressureUnit_default == "Pascals"


\* pub enum T { ... }: the variants in the order of their declaration
Unit_declared(T) ==
    CASE T = "LengthUnit" ->
             <<"Millimeters",
               "Centimeters",
               "Meters",
               "Kilometers",
               "Inches",
               "Feet",
               "Yards",
               "StatuteMiles",
               "NauticalMiles">>
      [] T = "MassUnit" ->
             <<"Kilograms",
               "PoundsMass">>
      [] T = "TimeUnit" ->
             <<"Seconds",
               "Minutes",
               "Hours",
               "Days",
               "Weeks",
               "Years">>
      [] T = "TemperatureUnit" ->
             <<"Kelvin",
               "Celsius",
               "Fahrenheit",
               "Rankine">>
      [] T = "VelocityUnit" ->
             <<"MetersPerSecond",
               "KilometersPerHour",
               "FeetPerSecond",
               "MilesPerHour",
               "Knots">>
      [] T = "ForceUnit" ->
             <<"Newtons",
               "PoundsForce",
               "KilogramsForce">>
      [] T = "PressureUnit" ->
             <<"Pascals",
               "Kilopascals",
               "Megapascals",
               "Bars",
               "PoundsPerSquareInch",
               "Atmospheres",
               "Torrs">>

\* fn all_names () -> Vec<String> { vec![ ... ] } of each impl
Unit_all_names(T) ==
    CASE T = "LengthUnit" ->
             <<LengthUnit_name("Millimeters"),
               LengthUnit_name("Centimeters"),
               LengthUnit_name("Meters"),
               LengthUnit_name("Kilometers"),
               LengthUnit_name("Inches"),
               LengthUnit_name("Feet"),
               LengthUnit_name("Yards"),
               LengthUnit_name("StatuteMiles"),
               LengthUnit_name("NauticalMiles")>>
      [] T = "MassUnit" ->
             <<MassUnit_name("Kilograms"),
               MassUnit_name("PoundsMass")>>
      [] T = "TimeUnit" ->
             <<TimeUnit_name("Seconds"),
               TimeUnit_name("Minutes"),
               TimeUnit_name("Hours"),
               TimeUnit_name("Days"),
               TimeUnit_name("Weeks"),
               TimeUnit_name("Years")>>
      [] T = "TemperatureUnit" ->
             <<TemperatureUnit_name("Kelvin"),
               TemperatureUnit_name("Celsius"),
               TemperatureUnit_name("Fahrenheit"),
               TemperatureUnit_name("Rankine")>>
      [] T = "VelocityUnit" ->
             <<VelocityUnit_name("MetersPerSecond"),
               VelocityUnit_name("KilometersPerHour"),
               VelocityUnit_name("FeetPerSecond"),
               VelocityUnit_name("MilesPerHour"),
               VelocityUnit_name("Knots")>>
      [] T = "ForceUnit" ->
             <<ForceUnit_name("Newtons"),
               ForceUnit_name("PoundsForce"),
               ForceUnit_name("KilogramsForce")>>
      [] T = "PressureUnit" ->
             <<PressureUnit_name("Pascals"),
               PressureUnit_name("Kilopascals"),
               PressureUnit_name("Megapascals"),
               PressureUnit_name("Bars"),
               PressureUnit_name("PoundsPerSquareInch"),
               PressureUnit_name("Atmospheres"),
               PressureUnit_name("Torrs")>>

\* a variant of all_abbrs whose MassUnit entries are in the other order
Unit_all_abbrs_swapped(T) ==
    CASE T = "LengthUnit" ->
             <<LengthUnit_abbr("Millimeters"),
               LengthUnit_abbr("Centimeters"),
               LengthUnit_abbr("Meters"),
               LengthUnit_abbr("Kilometers"),
               LengthUnit_abbr("Inches"),
               LengthUnit_abbr("Feet"),
               LengthUnit_abbr("Yards"),
               LengthUnit_abbr("StatuteMiles"),
               LengthUnit_abbr("NauticalMiles")>>
      [] T = "MassUnit" ->
             <<MassUnit_abbr("PoundsMass"),
               MassUnit_abbr("Kilograms")>>
      [] T = "TimeUnit" ->
             <<TimeUnit_abbr("Seconds"),
               TimeUnit_abbr("Minutes"),
               TimeUnit_abbr("Hours"),
               TimeUnit_abbr("Days"),
               TimeUnit_abbr("Weeks"),
               TimeUnit_abbr("Years")>>
      [] T = "TemperatureUnit" ->
             <<TemperatureUnit_abbr("Kelvin"),
               TemperatureUnit_abbr("Celsius"),
               TemperatureUnit_abbr("Fahrenheit"),
               TemperatureUnit_abbr("Rankine")>>
      [] T = "VelocityUnit" ->
             <<VelocityUnit_abbr("MetersPerSecond"),
               VelocityUnit_abbr("KilometersPerHour"),
               VelocityUnit_abbr("FeetPerSecond"),
               VelocityUnit_abbr("MilesPerHour"),
               VelocityUnit_abbr("Knots")>>
      [] T = "ForceUnit" ->
             <<ForceUnit_abbr("Newtons"),
               ForceUnit_abbr("PoundsForce"),
               ForceUnit_abbr("KilogramsForce")>>
      [] T = "PressureUnit" ->
             <<PressureUnit_abbr("Pascals"),
               PressureUnit_abbr("Kilopascals"),
               PressureUnit_abbr("Megapascals"),
               PressureUnit_abbr("Bars"),
               PressureUnit_abbr("PoundsPerSquareInch"),
               PressureUnit_abbr("Atmospheres"),
               PressureUnit_abbr("Torrs")>>

\* fn all_abbrs () -> Vec<String> { vec![ ... ] } of each impl
Unit_all_abbrs(T) ==
    CASE T = "LengthUnit" ->
             <<LengthUnit_abbr("Millimeters"),
               LengthUnit_abbr("Centimeters"),
               LengthUnit_abbr("Meters"),
               LengthUnit_abbr("Kilometers"),
               LengthUnit_abbr("Inches"),
               LengthUnit_abbr("Feet"),
               LengthUnit_abbr("Yards"),
               LengthUnit_abbr("StatuteMiles"),
               LengthUnit_abbr("NauticalMiles")>>
      [] T = "MassUnit" ->
             <<MassUnit_abbr("Kilograms"),
               MassUnit_abbr("PoundsMass")>>
      [] T = "TimeUnit" ->
             <<TimeUnit_abbr("Seconds"),
               TimeUnit_abbr("Minutes"),
               TimeUnit_abbr("Hours"),
               TimeUnit_abbr("Days"),
               TimeUnit_abbr("Weeks"),
               TimeUnit_abbr("Years")>>
      [] T = "TemperatureUnit" ->
             <<TemperatureUnit_abbr("Kelvin"),
               TemperatureUnit_abbr("Celsius"),
               TemperatureUnit_abbr("Fahrenheit"),
               TemperatureUnit_abbr("Rankine")>>
      [] T = "VelocityUnit" ->
             <<VelocityUnit_abbr("MetersPerSecond"),
               VelocityUnit_abbr("KilometersPerHour"),
               VelocityUnit_abbr("FeetPerSecond"),
               VelocityUnit_abbr("MilesPerHour"),
               VelocityUnit_abbr("Knots")>>
      [] T = "ForceUnit" ->
             <<ForceUnit_abbr("Newtons"),
               ForceUnit_abbr("PoundsForce"),
               ForceUnit_abbr("KilogramsForce")>>
      [] T = "PressureUnit" ->
             <<PressureUnit_abbr("Pascals"),
               PressureUnit_abbr("Kilopascals"),
               PressureUnit_abbr("Megapascals"),
               PressureUnit_abbr("Bars"),
               PressureUnit_abbr("PoundsPerSquareInch"),
               PressureUnit_abbr("Atmospheres"),
               PressureUnit_abbr("Torrs")>>

\* fn all_names_and_abbrs () -> Vec<String> { vec![ ... ] } of each impl
Unit_all_names_and_abbrs(T) ==
    CASE T = "LengthUnit" ->
             <<LengthUnit_name_and_abbr("Millimeters"),
               LengthUnit_name_and_abbr("Centimeters"),
               LengthUnit_name_and_abbr("Meters"),
               LengthUnit_name_and_abbr("Kilometers"),
               LengthUnit_name_and_abbr("Inches"),
               LengthUnit_name_and_abbr("Feet"),
               LengthUnit_name_and_abbr("Yards"),
               LengthUnit_name_and_abbr("StatuteMiles"),
               LengthUnit_name_and_abbr("NauticalMiles")>>
      [] T = "MassUnit" ->
             <<MassUnit_name_and_abbr("Kilograms"),
               MassUnit_name_and_abbr("PoundsMass")>>
      [] T = "TimeUnit" ->
             <<TimeUnit_name_and_abbr("Seconds"),
               TimeUnit_name_and_abbr("Minutes"),
               TimeUnit_name_and_abbr("Hours"),
               TimeUnit_name_and_abbr("Days"),
               TimeUnit_name_and_abbr("Weeks"),
               TimeUnit_name_and_abbr("Years")>>
      [] T = "TemperatureUnit" ->
             <<TemperatureUnit_name_and_abbr("Kelvin"),
               TemperatureUnit_name_and_abbr("Celsius"),
               TemperatureUnit_name_and_abbr("Fahrenheit"),
               TemperatureUnit_name_and_abbr("Rankine")>>
      [] T = "VelocityUnit" ->
             <<VelocityUnit_name_and_abbr("MetersPerSecond"),
               VelocityUnit_name_and_abbr("KilometersPerHour"),
               VelocityUnit_name_and_abbr("FeetPerSecond"),
               VelocityUnit_name_and_abbr("MilesPerHour"),
               VelocityUnit_name_and_abbr("Knots")>>
      [] T = "ForceUnit" ->
             <<ForceUnit_name_and_abbr("Newtons"),
               ForceUnit_name_and_abbr("PoundsForce"),
               ForceUnit_name_and_abbr("KilogramsForce")>>
      [] T = "PressureUnit" ->
             <<PressureUnit_name_and_abbr("Pascals"),
               PressureUnit_name_and_abbr("Kilopascals"),
               PressureUnit_name_and_abbr("Megapascals"),
               PressureUnit_name_and_abbr("Bars"),
               PressureUnit_name_and_abbr("PoundsPerSquareInch"),
               PressureUnit_name_and_abbr("Atmospheres"),
               PressureUnit_name_and_abbr("Torrs")>>


(***************************************************************************)
(* Static dispatch on the implementing type T of trait UnitOfMeasure.      *)
(***************************************************************************)
Dimensions ==
    {"LengthUnit", "MassUnit", "TimeUnit", "TemperatureUnit",
     "VelocityUnit", "ForceUnit", "PressureUnit"}

Variants(T) ==
    CASE T = "LengthUnit" -> LengthUnit
      [] T = "MassUnit" -> MassUnit
      [] T = "TimeUnit" -> TimeUnit
      [] T = "TemperatureUnit" -> TemperatureUnit
      [] T = "VelocityUnit" -> VelocityUnit
      [] T = "ForceUnit" -> ForceUnit
      [] T = "PressureUnit" -> PressureUnit

Unit_abbr(T, self) ==
    CASE T = "LengthUnit" -> LengthUnit_abbr(self)
      [] T = "MassUnit" -> MassUnit_abbr(self)
      [] T = "TimeUnit" -> TimeUnit_abbr(self)
      [] T = "TemperatureUnit" -> TemperatureUnit_abbr(self)
      [] T = "VelocityUnit" -> VelocityUnit_abbr(self)
      [] T = "ForceUnit" -> ForceUnit_abbr(self)
      [] T = "PressureUnit" -> PressureUnit_abbr(self)

Unit_name(T, self) ==
    CASE T = "LengthUnit" -> LengthUnit_name(self)
      [] T = "MassUnit" -> MassUnit_name(self)
      [] T = "TimeUnit" -> TimeUnit_name(self)
      [] T = "TemperatureUnit" -> TemperatureUnit_name(self)
      [] T = "VelocityUnit" -> VelocityUnit_name(self)
      [] T = "ForceUnit" -> ForceUnit_name(self)
      [] T = "PressureUnit" -> PressureUnit_name(self)

Unit_name_and_abbr(T, self) ==
    CASE T = "LengthUnit" -> LengthUnit_name_and_abbr(self)
      [] T = "MassUnit" -> MassUnit_name_and_abbr(self)
      [] T = "TimeUnit" -> TimeUnit_name_and_abbr(self)
      [] T = "TemperatureUnit" -> TemperatureUnit_name_and_abbr(self)
      [] T = "VelocityUnit" -> VelocityUnit_name_and_abbr(self)
      [] T = "ForceUnit" -> ForceUnit_name_and_abbr(self)
      [] T = "PressureUnit" -> PressureUnit_name_and_abbr(self)

Unit_convert(T, self, value, to_unit) ==
    CASE T = "LengthUnit" -> LengthUnit_convert(self, value, to_unit)
      [] T = "MassUnit" -> MassUnit_convert(self, value, to_unit)
      [] T = "TimeUnit" -> TimeUnit_convert(self, value, to_unit)
      [] T = "TemperatureUnit" -> TemperatureUnit_convert(self, value, to_unit)
      [] T = "VelocityUnit" -> VelocityUnit_convert(self, value, to_unit)
      [] T = "ForceUnit" -> ForceUnit_convert(self, value, to_unit)
      [] T = "PressureUnit" -> PressureUnit_convert(self, value, to_unit)

\* The first step of convert: the value in the base unit of T.
Unit_to_base(T, self, value) ==
    CASE T = "LengthUnit" -> LengthUnit_length_meters(self, value)
      [] T = "MassUnit" -> MassUnit_mass_kilograms(self, value)
      [] T = "TimeUnit" -> TimeUnit_time_seconds(self, value)
      [] T = "TemperatureUnit" -> TemperatureUnit_temp_kelvin(self, value)
      [] T = "VelocityUnit" -> VelocityUnit_velocity_meters_per_second(self, value)
      [] T = "ForceUnit" -> ForceUnit_force_newtons(self, value)
      [] T = "PressureUnit" -> PressureUnit_pressure_pascals(self, value)

\* The second step of convert: the base-unit value in to_unit.
Unit_from_base(T, to_unit, base) ==
    CASE T = "LengthUnit" -> LengthUnit_length_output(to_unit, base)
      [] T = "MassUnit" -> MassUnit_mass_output(to_unit, base)
      [] T = "TimeUnit" -> TimeUnit_time_output(to_unit, base)
      [] T = "TemperatureUnit" -> TemperatureUnit_temp_output(to_unit, base)
      [] T = "VelocityUnit" -> VelocityUnit_velocity_output(to_unit, base)
      [] T = "ForceUnit" -> ForceUnit_force_output(to_unit, base)
      [] T = "PressureUnit" -> PressureUnit_pressure_output(to_unit, base)

Unit_from_str(T, unit_str) ==
    CASE T = "LengthUnit" -> LengthUnit_from_str(unit_str)
      [] T = "MassUnit" -> MassUnit_from_str(unit_str)
      [] T = "TimeUnit" -> TimeUnit_from_str(unit_str)
      [] T = "TemperatureUnit" -> TemperatureUnit_from_str(unit_str)
      [] T = "VelocityUnit" -> VelocityUnit_from_str(unit_str)
      [] T = "ForceUnit" -> ForceUnit_from_str(unit_str)
      [] T = "PressureUnit" -> PressureUnit_from_str(unit_str)

Unit_default(T) ==
    CASE T = "LengthUnit" -> LengthUnit_default
      [] T = "MassUnit" -> MassUnit_default
      [] T = "TimeUnit" -> TimeUnit_default
      [] T = "TemperatureUnit" -> TemperatureUnit_default
      [] T = "VelocityUnit" -> VelocityUnit_default
      [] T = "ForceUnit" -> ForceUnit_default
      [] T = "PressureUnit" -> PressureUnit_default

(***************************************************************************)
(* The caller.  The library keeps no state of its own: the state is what   *)
(* a caller holds across its calls.                                        *)
(*                                                                         *)
(* Under Spec the caller holds a magnitude src_value in unit src_unit of   *)
(* dimension dim, converts it to dst_unit (dst_value) and converts that    *)
(* back to src_unit (back_value).                                          *)
(*                                                                         *)
(* Under SpecParse the caller holds a string text, which it got from       *)
(* abbr, name or name_and_abbr of a variant of dim or from elsewhere       *)
(* (text_origin), and hands it to from_str of dim (parsed); it also asks   *)
(* for the lists all_names, all_abbrs and all_names_and_abbrs of dim       *)
(* (listed).                                                               *)
(*                                                                         *)
(* Under SpecValue the caller holds one value wrapper of type wrapper      *)
(* (src/values.rs), whose private magnitude is stored; supplied is the     *)
(* last call of new or set with its arguments, got the last call of get    *)
(* with its argument and the magnitude of the wrapper it returned, and     *)
(* fault the message of the panic that ended the caller, if one did.       *)
(***************************************************************************)
VARIABLES dim, src_unit, src_value, dst_unit, dst_value, back_value, pc,
          text, text_origin, parsed, listed,
          wrapper, stored, supplied, got, fault,
          hop_unit, thread

vars == <<dim, src_unit, src_value, dst_unit, dst_value, back_value, pc,
          text, text_origin, parsed, listed,
          wrapper, stored, supplied, got, fault,
          hop_unit, thread>>

conv_vars == <<src_unit, src_value, dst_unit, dst_value, back_value, hop_unit>>

parse_vars == <<text, text_origin, parsed, listed>>

value_vars == <<wrapper, stored, supplied, got, fault>>

\* Magnitudes are the decimal fractions d / 10^s of a few integers d.
MaxScale == 2

MagnitudeDigits == {0, 1, 25, 32, -40, 100}

Magnitudes == {F64Lit(d, s) : d \in MagnitudeDigits, s \in 0..MaxScale}

Unset == <<"unset">>

Init ==
    /\ dim \in Dimensions
    /\ src_unit \in Variants(dim)
    /\ src_value \in Magnitudes
    /\ dst_unit = "none"
    /\ dst_value = Unset
    /\ back_value = Unset
    /\ pc = "start"
    /\ text = ""
    /\ text_origin = <<"none">>
    /\ parsed = Unset
    /\ listed = <<"none">>
    /\ wrapper = "none"
    /\ stored = Unset
    /\ supplied = <<"none">>
    /\ got = <<"none">>
    /\ fault = <<"none">>
    /\ hop_unit = "none"
    /\ thread = <<>>

\* dst_value = src_unit.convert(src_value, &to_unit)
Convert(to_unit) ==
    /\ pc = "start"
    /\ dst_unit' = to_unit
    /\ dst_value' = Unit_convert(dim, src_unit, src_value, to_unit)
    /\ pc' = "converted"
    /\ UNCHANGED <<hop_unit, thread, dim, src_unit, src_value, back_value, parse_vars, value_vars>>

\* back_value = dst_unit.convert(dst_value, &src_unit)
ConvertBack ==
    /\ pc = "converted"
    /\ back_value' = Unit_convert(dim, dst_unit, dst_value, src_unit)
    /\ pc' = "returned"
    /\ UNCHANGED <<hop_unit, thread, dim, src_unit, src_value, dst_unit, dst_value, parse_vars, value_vars>>

Next ==
    \/ \E to_unit \in Variants(dim) : Convert(to_unit)
    \/ ConvertBack

Spec == Init /\ [][Next]_vars

\* Strings that are no output of the library, and every output of every dimension
\* (so that each parser also meets the forms of the other dimensions).
OtherInputs ==
    {"", "not-a-unit", "M", " m", "m ", "meters", "METERS", "Meters(m)", "Meters (m) ",
     "Meters m", "(m)", "KG", "Kg", "kilograms", "n", "newtons", "S", "k", "C", "F",
     "pa", "PA", "torr", "Knot", "lbs", "Pound", "Meter", "mile", "Miles"}

LibraryOutputs ==
    UNION {UNION {{Unit_abbr(T, u), Unit_name(T, u), Unit_name_and_abbr(T, u)} :
                    u \in Variants(T)} : T \in Dimensions}

Inputs == OtherInputs \cup LibraryOutputs

InitParse ==
    /\ dim \in Dimensions
    /\ src_unit = "none"
    /\ src_value = Unset
    /\ dst_unit = "none"
    /\ dst_value = Unset
    /\ back_value = Unset
    /\ pc = "parse"
    /\ text = ""
    /\ text_origin = <<"none">>
    /\ parsed = Unset
    /\ listed = <<"none">>
    /\ wrapper = "none"
    /\ stored = Unset
    /\ supplied = <<"none">>
    /\ got = <<"none">>
    /\ fault = <<"none">>
    /\ hop_unit = "none"
    /\ thread = <<>>

\* text = unit.abbr()
CallAbbr(unit) ==
    /\ text' = Unit_abbr(dim, unit)
    /\ text_origin' = <<"abbr", unit>>
    /\ parsed' = Unset
    /\ UNCHANGED <<thread, dim, pc, conv_vars, listed, value_vars>>

\* text = unit.name()
CallName(unit) ==
    /\ text' = Unit_name(dim, unit)
    /\ text_origin' = <<"name", unit>>
    /\ parsed' = Unset
    /\ UNCHANGED <<thread, dim, pc, conv_vars, listed, value_vars>>

\* text = unit.name_and_abbr()
CallNameAndAbbr(unit) ==
    /\ text' = Unit_name_and_abbr(dim, unit)
    /\ text_origin' = <<"name_and_abbr", unit>>
    /\ parsed' = Unset
    /\ UNCHANGED <<thread, dim, pc, conv_vars, listed, value_vars>>

\* text is a string of the caller's own
Supply(str) ==
    /\ text' = str
    /\ text_origin' = <<"input">>
    /\ parsed' = Unset
    /\ UNCHANGED <<thread, dim, pc, conv_vars, listed, value_vars>>

\* parsed = T::from_str(&text)
CallFromStr ==
    /\ text_origin # <<"none">>
    /\ parsed = Unset
    /\ parsed' = Unit_from_str(dim, text)
    /\ UNCHANGED <<thread, dim, pc, conv_vars, text, text_origin, listed, value_vars>>

\* listed = T::all_names()
CallAllNames ==
    /\ listed' = <<"all_names", Unit_all_names(dim)>>
    /\ UNCHANGED <<thread, dim, pc, conv_vars, text, text_origin, parsed, value_vars>>

\* listed = T::all_abbrs()
CallAllAbbrs ==
    /\ listed' = <<"all_abbrs", Unit_all_abbrs(dim)>>
    /\ UNCHANGED <<thread, dim, pc, conv_vars, text, text_origin, parsed, value_vars>>

\* listed = T::all_names_and_abbrs()
CallAllNamesAndAbbrs ==
    /\ listed' = <<"all_names_and_abbrs", Unit_all_names_and_abbrs(dim)>>
    /\ UNCHANGED <<thread, dim, pc, conv_vars, text, text_origin, parsed, value_vars>>

NextParse ==
    \/ \E unit \in Variants(dim) : CallAbbr(unit)
    \/ \E unit \in Variants(dim) : CallName(unit)
    \/ \E unit \in Variants(dim) : CallNameAndAbbr(unit)
    \/ \E str \in Inputs : Supply(str)
    \/ CallFromStr
    \/ CallAllNames
    \/ CallAllAbbrs
    \/ CallAllNamesAndAbbrs

SpecParse == InitParse /\ [][NextParse]_vars


(***************************************************************************)
(* src/values.rs: the value wrappers.  Each wrapper is a struct with one   *)
(* private field, `value: f64`, held in the default unit of its dimension. *)
(* A unit argument is a UnitEnum, modelled as the pair <<tag, variant>>.   *)
(***************************************************************************)

\* The nine `pub struct <X>Value` declarations.
ValueTypes ==
    {"LengthValue", "MassValue", "TimeValue", "TemperatureValue",
     "VelocityValue", "ForceValue", "PressureValue", "BearingValue",
     "AccelerationValue"}

\* The UnitEnum variant named by the first match arm of every method of X.
Value_tag(X) ==
    CASE X = "LengthValue"       -> "Length"
      [] X = "MassValue"         -> "Mass"
      [] X = "TimeValue"         -> "Time"
      [] X = "TemperatureValue"  -> "Temperature"
      [] X = "VelocityValue"     -> "Velocity"
      [] X = "ForceValue"        -> "Force"
      [] X = "PressureValue"     -> "Pressure"
      [] X = "BearingValue"      -> "Bearing"
      [] X = "AccelerationValue" -> "Acceleration"

\* The unit enum whose default() the methods of X name.
Value_unit_type(X) ==
    CASE X = "LengthValue"       -> "LengthUnit"
      [] X = "MassValue"         -> "MassUnit"
      [] X = "TimeValue"         -> "TimeUnit"
      [] X = "TemperatureValue"  -> "TemperatureUnit"
      [] X = "VelocityValue"     -> "VelocityUnit"
      [] X = "ForceValue"        -> "ForceUnit"
      [] X = "PressureValue"     -> "PressureUnit"
      [] X = "BearingValue"      -> "BearingUnit"
      [] X = "AccelerationValue" -> "AccelerationUnit"

\* The message of the `_ => panic!(...)` arm of every method of X.
InvalidUnit(X) == "Invalid unit for " \o X

(***************************************************************************)
(* Declarations that values.rs uses and units.rs does not contain: the     *)
(* Bearing and Acceleration unit enums, UnitEnum, and the three-argument   *)
(* convert(value, from_unit, to_unit).                                     *)
(***************************************************************************)
BearingUnit == {"Degrees", "Radians", "Gradians", "Mils"}

\* a default() that returns the unit the comments of BearingValue name
BearingUnit_default_radians == "Radians"

BearingUnit_default == "Degrees"

\* Degrees per unit: rad x 57.2958, grad x 0.9, mil x 0.05625.
BearingUnit_bearing_degrees(unit, value) ==
    CASE unit = "Degrees"  -> value
      [] unit = "Radians"  -> F64Mul(value, F64Lit(572958, 4))
      [] unit = "Gradians" -> F64Mul(value, F64Lit(9, 1))
      [] unit = "Mils"     -> F64Mul(value, F64Lit(5625, 5))

BearingUnit_bearing_output(unit, degrees) ==
    CASE unit = "Degrees"  -> degrees
      [] unit = "Radians"  -> F64Div(degrees, F64Lit(572958, 4))
      [] unit = "Gradians" -> F64Div(degrees, F64Lit(9, 1))
      [] unit = "Mils"     -> F64Div(degrees, F64Lit(5625, 5))

AccelerationUnit == {"MetersPerSecondSquared"}

AccelerationUnit_default == "MetersPerSecondSquared"

UnitEnum_variants(T) ==
    IF T \in Dimensions THEN Variants(T)
    ELSE IF T = "BearingUnit" THEN BearingUnit
    ELSE AccelerationUnit

UnitEnum_default(T) ==
    IF T \in Dimensions THEN Unit_default(T)
    ELSE IF T = "BearingUnit" THEN BearingUnit_default
    ELSE AccelerationUnit_default

\* enum UnitEnum { Length(LengthUnit), ..., Acceleration(AccelerationUnit) }
UnitEnum ==
    UNION {{<<Value_tag(X), u>> : u \in UnitEnum_variants(Value_unit_type(X))}
           : X \in ValueTypes}

\* convert(value, from_unit, to_unit): for the dimensions of units.rs, the
\* convert of the unit enum with from_unit as the receiver.
UnitEnum_convert(T, value, from_unit, to_unit) ==
    IF T \in Dimensions THEN Unit_convert(T, from_unit, value, to_unit)
    ELSE IF T = "BearingUnit"
         THEN BearingUnit_bearing_output(to_unit,
                  BearingUnit_bearing_degrees(from_unit, value))
    ELSE value

(***************************************************************************)
(* trait Value and its nine impls.  The result of a method is              *)
(* <<"ok", magnitude>> or <<"panic", message>>.                            *)
(***************************************************************************)
\* get with the from and to units of convert exchanged
Value_get_exchanged(X, self_value, unit) ==
    IF unit[1] = Value_tag(X)
    THEN <<"ok", UnitEnum_convert(Value_unit_type(X), self_value, unit[2],
                     UnitEnum_default(Value_unit_type(X)))>>
    ELSE <<"panic", InvalidUnit(X)>>

Value_get(X, self_value, unit) ==
    IF unit[1] = Value_tag(X)
    THEN <<"ok", UnitEnum_convert(Value_unit_type(X), self_value,
                     UnitEnum_default(Value_unit_type(X)), unit[2])>>
    ELSE <<"panic", InvalidUnit(X)>>

\* set that stores the magnitude as given when the unit is of another dimension
Value_set_coercing(X, value, unit) ==
    <<"ok", IF unit[1] = Value_tag(X)
            THEN UnitEnum_convert(Value_unit_type(X), value, unit[2],
                     UnitEnum_default(Value_unit_type(X)))
            ELSE value>>

\* set that stores the magnitude without converting it to the default unit
Value_set_unconverted(X, value, unit) ==
    IF unit[1] = Value_tag(X)
    THEN <<"ok", value>>
    ELSE <<"panic", InvalidUnit(X)>>

Value_set(X, value, unit) ==
    IF unit[1] = Value_tag(X)
    THEN <<"ok", UnitEnum_convert(Value_unit_type(X), value, unit[2],
                     UnitEnum_default(Value_unit_type(X)))>>
    ELSE <<"panic", InvalidUnit(X)>>

\* new that stores the magnitude as given, without converting it
Value_new_as_given(X, value, unit) ==
    IF unit[1] = Value_tag(X)
    THEN <<"ok", value>>
    ELSE <<"panic", InvalidUnit(X)>>

Value_new(X, value, unit) ==
    IF unit[1] = Value_tag(X)
    THEN <<"ok", UnitEnum_convert(Value_unit_type(X), value, unit[2],
                     UnitEnum_default(Value_unit_type(X)))>>
    ELSE <<"panic", InvalidUnit(X)>>

(***************************************************************************)
(* The wrapper life cycle: one wrapper of type `wrapper` is created by new *)
(* and then used through set and get.  `stored` is the private field,      *)
(* `supplied` the last (value, unit) pair that new or set accepted, `got`  *)
(* the last get with the magnitude of the wrapper it returned, `fault` the *)
(* panic that ended the caller, with the call that raised it and the tag   *)
(* of the unit it was given.                                               *)
(***************************************************************************)
WrapperMagnitudes ==
    {F64FromInt(0), F64Lit(25, 1), F64FromInt(100), F64FromInt(200)}

InitValue ==
    /\ wrapper \in ValueTypes
    /\ stored = Unset
    /\ supplied = <<"none">>
    /\ got = <<"none">>
    /\ fault = <<"none">>
    /\ pc = "value"
    /\ dim = "none"
    /\ src_unit = "none"
    /\ src_value = Unset
    /\ dst_unit = "none"
    /\ dst_value = Unset
    /\ back_value = Unset
    /\ text = ""
    /\ text_origin = <<"none">>
    /\ parsed = Unset
    /\ listed = <<"none">>
    /\ hop_unit = "none"
    /\ thread = <<>>

\* an assignment that clears the field before the unit is matched, so that a
\* panic leaves 0.0 behind
Stored_cleared_first(r, call, value, unit) ==
    IF r[1] = "ok"
    THEN /\ stored' = r[2]
         /\ supplied' = <<call, value, unit>>
         /\ got' = <<"none">>
         /\ fault' = fault
    ELSE /\ fault' = <<r[2], call, unit[1]>>
         /\ stored' = F64FromInt(0)
         /\ UNCHANGED <<supplied, got>>

Stored(r, call, value, unit) ==
    IF r[1] = "ok"
    THEN /\ stored' = r[2]
         /\ supplied' = <<call, value, unit>>
         /\ got' = <<"none">>
         /\ fault' = fault
    ELSE /\ fault' = <<r[2], call, unit[1]>>
         /\ UNCHANGED <<stored, supplied, got>>

New(value, unit) ==
    /\ pc = "value"
    /\ supplied = <<"none">>
    /\ fault = <<"none">>
    /\ Stored(Value_new(wrapper, value, unit), "new", value, unit)
    /\ UNCHANGED <<thread, wrapper, dim, pc, conv_vars, parse_vars>>

Set(value, unit) ==
    /\ pc = "value"
    /\ supplied # <<"none">>
    /\ fault = <<"none">>
    /\ Stored(Value_set(wrapper, value, unit), "set", value, unit)
    /\ UNCHANGED <<thread, wrapper, dim, pc, conv_vars, parse_vars>>

Returned(r, unit) ==
    IF r[1] = "ok"
    THEN /\ got' = <<unit, r[2]>>
         /\ fault' = fault
    ELSE /\ fault' = <<r[2], "get", unit[1]>>
         /\ got' = got

\* a get that keeps the converted magnitude in self.value
Get_caching(unit) ==
    /\ pc = "value"
    /\ supplied # <<"none">>
    /\ fault = <<"none">>
    /\ got' = IF Value_get(wrapper, stored, unit)[1] = "ok"
              THEN <<unit, Value_get(wrapper, stored, unit)[2]>>
              ELSE got
    /\ stored' = IF Value_get(wrapper, stored, unit)[1] = "ok"
                 THEN Value_get(wrapper, stored, unit)[2]
                 ELSE stored
    /\ fault' = IF Value_get(wrapper, stored, unit)[1] = "ok"
                THEN fault
                ELSE <<Value_get(wrapper, stored, unit)[2], "get", unit[1]>>
    /\ UNCHANGED <<thread, wrapper, supplied, dim, pc, conv_vars, parse_vars>>

Get(unit) ==
    /\ pc = "value"
    /\ supplied # <<"none">>
    /\ fault = <<"none">>
    /\ Returned(Value_get(wrapper, stored, unit), unit)
    /\ UNCHANGED <<thread, wrapper, stored, supplied, dim, pc, conv_vars, parse_vars>>

NextValue ==
    \/ \E value \in WrapperMagnitudes, unit \in UnitEnum : New(value, unit)
    \/ \E value \in WrapperMagnitudes, unit \in UnitEnum : Set(value, unit)
    \/ \E unit \in UnitEnum : Get(unit)

SpecValue == InitValue /\ [][NextValue]_vars

(***************************************************************************)
(* A chain of two conversions: after dst_value = src_unit.convert(v, B),   *)
(* the caller converts dst_value on from B to a third unit.                *)
(***************************************************************************)
\* back_value = dst_unit.convert(dst_value, &to_unit)
ConvertOn(to_unit) ==
    /\ pc = "converted"
    /\ hop_unit' = to_unit
    /\ back_value' = Unit_convert(dim, dst_unit, dst_value, to_unit)
    /\ pc' = "hopped"
    /\ UNCHANGED <<thread, dim, src_unit, src_value, dst_unit, dst_value,
                   parse_vars, value_vars>>

NextHop ==
    \/ \E to_unit \in Variants(dim) : Convert(to_unit)
    \/ \E to_unit \in Variants(dim) : ConvertOn(to_unit)

\* The magnitudes of a chain: those of a single conversion and two next to zero,
\* where what an offset's rounding leaves is large beside the value.
HopMagnitudes == Magnitudes \cup {F64Lit(d, MaxScale + 3) : d \in {1, -1}}

InitHop ==
    /\ dim \in Dimensions
    /\ src_unit \in Variants(dim)
    /\ src_value \in HopMagnitudes
    /\ dst_unit = "none"
    /\ dst_value = Unset
    /\ back_value = Unset
    /\ pc = "start"
    /\ text = ""
    /\ text_origin = <<"none">>
    /\ parsed = Unset
    /\ listed = <<"none">>
    /\ wrapper = "none"
    /\ stored = Unset
    /\ supplied = <<"none">>
    /\ got = <<"none">>
    /\ fault = <<"none">>
    /\ hop_unit = "none"
    /\ thread = <<>>

SpecHop == InitHop /\ [][NextHop]_vars

(***************************************************************************)
(* Concurrent callers.  Each thread calls convert or from_str on values of *)
(* its own, or get on one shared wrapper (`&self`), again and again.  A    *)
(* thread is [pc, call, local, result]: a call of get first reads          *)
(* self.value into `local` and then computes; convert and from_str compute *)
(* from their arguments alone.                                             *)
(***************************************************************************)
Threads == {"t1", "t2"}

MaxCallUnits == 2

\* The units that the calls of the threads name: the first declared ones.
CallUnits(T) == {Unit_declared(T)[i] : i \in 1..Min(MaxCallUnits, Len(Unit_declared(T)))}

CallStrings(T) == {Unit_abbr(T, u) : u \in CallUnits(T)} \cup {"not-a-unit"}

Calls(X) ==
    {<<"convert", from_unit, F64Lit(25, 1), to_unit>> :
         from_unit \in CallUnits(Value_unit_type(X)),
         to_unit \in CallUnits(Value_unit_type(X))}
    \cup {<<"from_str", unit_str>> : unit_str \in CallStrings(Value_unit_type(X))}
    \cup {<<"get", <<Value_tag(X), unit>>>> : unit \in CallUnits(Value_unit_type(X))}

Idle == [pc |-> "idle", call |-> <<"none">>, local |-> Unset, result |-> Unset]

\* The shared wrapper is <X>Value::new(100.0, unit); no thread has called yet.
InitThreads ==
    /\ wrapper \in {X \in ValueTypes : Value_unit_type(X) \in Dimensions}
    /\ dim = Value_unit_type(wrapper)
    /\ \E unit \in CallUnits(dim) :
           /\ supplied = <<"new", F64FromInt(100), <<Value_tag(wrapper), unit>>>>
           /\ stored = Value_new(wrapper, F64FromInt(100),
                                 <<Value_tag(wrapper), unit>>)[2]
    /\ thread = [t \in Threads |-> Idle]
    /\ pc = "threads"
    /\ got = <<"none">>
    /\ fault = <<"none">>
    /\ src_unit = "none"
    /\ src_value = Unset
    /\ dst_unit = "none"
    /\ dst_value = Unset
    /\ back_value = Unset
    /\ hop_unit = "none"
    /\ text = ""
    /\ text_origin = <<"none">>
    /\ parsed = Unset
    /\ listed = <<"none">>

\* a convert that takes its magnitude from the shared wrapper, not from its argument
CallResult_of_wrapper(call, local) ==
    CASE call[1] = "convert"  -> Unit_convert(dim, call[2], stored, call[4])
      [] call[1] = "from_str" -> Unit_from_str(dim, call[2])
      [] call[1] = "get"      -> Value_get(wrapper, local, call[2])

\* The outcome of a call whose arguments, and for get the magnitude read
\* from self.value, are in hand.
CallResult(call, local) ==
    CASE call[1] = "convert"  -> Unit_convert(dim, call[2], call[3], call[4])
      [] call[1] = "from_str" -> Unit_from_str(dim, call[2])
      [] call[1] = "get"      -> Value_get(wrapper, local, call[2])

Begin(t, call) ==
    /\ pc = "threads"
    /\ thread[t].pc \in {"idle", "done"}
    /\ thread' = [thread EXCEPT ![t] =
                     [pc |-> "called", call |-> call,
                      local |-> Unset, result |-> Unset]]
    /\ UNCHANGED <<dim, pc, conv_vars, parse_vars, value_vars>>

\* a get that moves the magnitude out of self.value, leaving 0.0 behind
Load_taking(t) ==
    /\ pc = "threads"
    /\ thread[t].pc = "called"
    /\ thread[t].call[1] = "get"
    /\ thread' = [thread EXCEPT ![t].pc = "loaded", ![t].local = stored]
    /\ stored' = F64FromInt(0)
    /\ UNCHANGED <<dim, pc, conv_vars, parse_vars, wrapper, supplied, got, fault>>

\* `self.value` in get
Load(t) ==
    /\ pc = "threads"
    /\ thread[t].pc = "called"
    /\ thread[t].call[1] = "get"
    /\ thread' = [thread EXCEPT ![t].pc = "loaded", ![t].local = stored]
    /\ UNCHANGED <<dim, pc, conv_vars, parse_vars, value_vars>>

Compute(t) ==
    /\ pc = "threads"
    /\ \/ thread[t].pc = "loaded"
       \/ thread[t].pc = "called" /\ thread[t].call[1] # "get"
    /\ thread' = [thread EXCEPT
                     ![t].pc = "done",
                     ![t].result = CallResult(thread[t].call, thread[t].local)]
    /\ UNCHANGED <<dim, pc, conv_vars, parse_vars, value_vars>>

NextThreads ==
    \/ \E t \in Threads, call \in Calls(wrapper) : Begin(t, call)
    \/ \E t \in Threads : Load(t)
    \/ \E t \in Threads : Compute(t)

SpecThreads == InitThreads /\ [][NextThreads]_vars

(***************************************************************************)
(* Chained reads: x.get(A).get(B).  The receiver of the second get is the  *)
(* wrapper that the first get returned, whose field is got[2]; `got`       *)
(* becomes <<A, x.get(A).value, B, x.get(A).get(B).value>>.                *)
(***************************************************************************)
\* The unit is of the dimension of the wrapper.
OwnUnit(unit) == unit[1] = Value_tag(wrapper)

Chained(r, unit) ==
    IF r[1] = "ok"
    THEN /\ got' = <<got[1], got[2], unit, r[2]>>
         /\ fault' = fault
    ELSE /\ fault' = <<r[2], "get", unit[1]>>
         /\ got' = got

GetOfGot(unit) ==
    /\ pc = "value"
    /\ fault = <<"none">>
    /\ got # <<"none">>
    /\ Len(got) = 2
    /\ Chained(Value_get(wrapper, got[2], unit), unit)
    /\ UNCHANGED <<thread, wrapper, stored, supplied, dim, pc, conv_vars,
                   parse_vars>>

NextChain ==
    \/ \E value \in WrapperMagnitudes, unit \in UnitEnum :
           OwnUnit(unit) /\ New(value, unit)
    \/ \E unit \in UnitEnum : OwnUnit(unit) /\ Get(unit)
    \/ \E unit \in UnitEnum : OwnUnit(unit) /\ GetOfGot(unit)

SpecChain == InitValue /\ [][NextChain]_vars
(***************************************************************************)
(* Exact comparisons of f64 values, for tolerances.                        *)
(***************************************************************************)
\* |x| / 2^e0 for a finite x and e0 <= x.e
Scaled(x, e0) == Shl(x.m, x.e - e0)

\* |x - y| / 2^e0 for finite x, y
AbsDiff(x, y, e0) ==
    LET a == Scaled(x, e0)
        b == Scaled(y, e0)
    IN  IF x.s # y.s THEN NatAdd(a, b)
        ELSE IF NatCmp(a, b) >= 0 THEN NatSub(a, b)
        ELSE NatSub(b, a)

Billion == NatOfInt(10^9)

\* |x - v| <= 1e-9 * |v|
WithinRel(x, v) ==
    /\ IsFinite(x)
    /\ IsFinite(v)
    /\ LET e0 == Min(x.e, v.e)
       IN  NatCmp(NatMul(AbsDiff(x, v, e0), Billion), Scaled(v, e0)) <= 0

\* |x - v| <= 1e-9 * max(|v|, 1)
WithinRelOrAbs(x, v) ==
    /\ IsFinite(x)
    /\ IsFinite(v)
    /\ LET e0  == Min(Min(x.e, v.e), 0)
           one == Shl(<<1>>, -e0)
           av  == Scaled(v, e0)
       IN  NatCmp(NatMul(AbsDiff(x, v, e0), Billion),
                  IF NatCmp(av, one) >= 0 THEN av ELSE one) <= 0

\* v is zero or 2^-900 <= |v| < 2^900: no conversion of v overflows or underflows.
Moderate(v) ==
    /\ IsFinite(v)
    /\ (IsZero(v) \/ (v.e >= -900 /\ v.e <= 900 - F64Precision))

(***************************************************************************)
(* C1, as stated: B.convert(A.convert(v, B), A) equals v within a relative *)
(* tolerance of 1e-9, for every dimension, every pair of variants A, B and *)
(* every magnitude v.                                                      *)
(***************************************************************************)
RoundTripRelative ==
    pc = "returned" => WithinRel(back_value, src_value)

(***************************************************************************)
(* C1, amended: for every magnitude v that is zero or between 2^-900 and   *)
(* 2^900 in absolute value, the round trip is within 1e-9 * |v| of v in    *)
(* the six dimensions whose conversions are scalings, and within           *)
(* 1e-9 * max(|v|, 1) of v in Temperature, whose conversions add offsets.  *)
(***************************************************************************)
RoundTripScaledOrOffset ==
    (pc = "returned" /\ Moderate(src_value)) =>
        IF dim = "TemperatureUnit" THEN WithinRelOrAbs(back_value, src_value)
        ELSE WithinRel(back_value, src_value)

\* A temperature came back changed, and by more than 1e-9 of itself.
RoundTripOffsetSeen ==
    /\ pc = "returned"
    /\ dim = "TemperatureUnit"
    /\ src_unit # dst_unit
    /\ Moderate(src_value)
    /\ ~WithinRel(back_value, src_value)
    /\ WithinRelOrAbs(back_value, src_value)

(***************************************************************************)
(* C2, as stated: A.convert(v, A) returns v exactly, for every dimension,  *)
(* every variant A and every magnitude v.                                  *)
(***************************************************************************)
IdentityExact ==
    (pc = "converted" /\ dst_unit = src_unit) => F64Eq(dst_value, src_value)

(***************************************************************************)
(* C3: converting v from the base unit of a dimension to that base unit    *)
(* returns v unchanged, and each of the two steps is the identity for the  *)
(* base variant.                                                           *)
(***************************************************************************)
BaseUnit(T) ==
    CASE T = "LengthUnit" -> "Meters"
      [] T = "MassUnit" -> "Kilograms"
      [] T = "TimeUnit" -> "Seconds"
      [] T = "TemperatureUnit" -> "Kelvin"
      [] T = "VelocityUnit" -> "MetersPerSecond"
      [] T = "ForceUnit" -> "Newtons"
      [] T = "PressureUnit" -> "Pascals"

BasePassthrough ==
    /\ (pc = "converted" /\ src_unit = BaseUnit(dim) /\ dst_unit = BaseUnit(dim)) =>
           dst_value = src_value
    /\ (pc = "converted" /\ src_unit = BaseUnit(dim)) =>
           Unit_to_base(dim, src_unit, src_value) = src_value
    /\ (pc = "converted" /\ dst_unit = BaseUnit(dim)) =>
           Unit_from_base(dim, dst_unit, src_value) = src_value

BasePassthroughSeen ==
    /\ pc = "converted"
    /\ dim = "ForceUnit"
    /\ src_unit = "Newtons"
    /\ dst_unit = "Newtons"
    /\ src_value = F64Lit(25, 1)
    /\ dst_value = F64Lit(25, 1)

(***************************************************************************)
(* C4: in Length, Mass and Velocity the source value is divided by the     *)
(* source unit's constant to reach the base unit and the base value is     *)
(* multiplied by the target unit's same constant; Kilometers is the        *)
(* exception (multiplied by 1000 to the base, divided by 1000 from it);    *)
(* 1 m/s is 3.6 km/h and 2.23694 mph.                                      *)
(***************************************************************************)
DividedDimensions == {"LengthUnit", "MassUnit", "VelocityUnit"}

\* The constants of the specification's table.
Divisor(unit) ==
    CASE unit = "Millimeters" -> F64FromInt(1000)
      [] unit = "Centimeters" -> F64FromInt(100)
      [] unit = "Inches" -> F64Lit(393701, 4)
      [] unit = "Feet" -> F64Lit(328084, 5)
      [] unit = "Yards" -> F64Lit(109361, 5)
      [] unit = "StatuteMiles" -> F64Lit(621371, 9)
      [] unit = "NauticalMiles" -> F64Lit(539957, 9)
      [] unit = "PoundsMass" -> F64Lit(220462, 5)
      [] unit = "KilometersPerHour" -> F64Lit(36, 1)
      [] unit = "FeetPerSecond" -> F64Lit(328084, 5)
      [] unit = "MilesPerHour" -> F64Lit(223694, 5)
      [] unit = "Knots" -> F64Lit(194384, 5)

DividedToBase(T, unit, v) ==
    IF unit = BaseUnit(T) THEN v
    ELSE IF unit = "Kilometers" THEN F64Mul(v, F64FromInt(1000))
    ELSE F64Div(v, Divisor(unit))

MultipliedFromBase(T, unit, b) ==
    IF unit = BaseUnit(T) THEN b
    ELSE IF unit = "Kilometers" THEN F64Div(b, F64FromInt(1000))
    ELSE F64Mul(b, Divisor(unit))

MultipliedDimensions == {"TimeUnit", "ForceUnit", "PressureUnit"}

\* The constants of the specification's table.
Multiplier(unit) ==
    CASE unit = "Minutes" -> F64FromInt(60)
      [] unit = "Hours" -> F64FromInt(3600)
      [] unit = "Days" -> F64FromInt(86400)
      [] unit = "Weeks" -> F64FromInt(604800)
      [] unit = "Years" -> F64FromInt(31536000)
      [] unit = "PoundsForce" -> F64Lit(444822, 5)
      [] unit = "KilogramsForce" -> F64Lit(980665, 5)
      [] unit = "Kilopascals" -> F64FromInt(1000)
      [] unit = "Megapascals" -> F64FromInt(1000000)
      [] unit = "Bars" -> F64FromInt(100000)
      [] unit = "PoundsPerSquareInch" -> F64Lit(689476, 2)
      [] unit = "Atmospheres" -> F64FromInt(101325)
      [] unit = "Torrs" -> F64Lit(133322, 3)

MultipliedToBase(T, unit, v) ==
    IF unit = BaseUnit(T) THEN v ELSE F64Mul(v, Multiplier(unit))

DividedFromBase(T, unit, b) ==
    IF unit = BaseUnit(T) THEN b ELSE F64Div(b, Multiplier(unit))

MultiplyThenDivide ==
    (pc = "converted" /\ dim \in MultipliedDimensions) =>
        /\ Unit_to_base(dim, src_unit, src_value) =
               MultipliedToBase(dim, src_unit, src_value)
        /\ dst_value =
               DividedFromBase(dim, dst_unit, MultipliedToBase(dim, src_unit, src_value))

\* one week is seven days
MultiplyThenDivideSeen ==
    /\ pc = "converted"
    /\ dim = "TimeUnit"
    /\ src_unit = "Weeks"
    /\ src_value = F64FromInt(1)
    /\ dst_unit = "Days"
    /\ dst_value = F64FromInt(7)

(***************************************************************************)
(* C6: Temperature converts through Kelvin by K = v, C + 273.15,           *)
(* (F + 459.67) x 5 / 9, R x 5 / 9, and from Kelvin by the inverse         *)
(* formulas K - 273.15, K x 9 / 5 - 459.67, K x 9 / 5; 0 Celsius and       *)
(* 32 Fahrenheit both convert to 273.15 Kelvin.                            *)
(***************************************************************************)
ToKelvin(unit, v) ==
    CASE unit = "Kelvin" -> v
      [] unit = "Celsius" -> F64Add(v, F64Lit(27315, 2))
      [] unit = "Fahrenheit" ->
             F64Div(F64Mul(F64Add(v, F64Lit(45967, 2)), F64FromInt(5)), F64FromInt(9))
      [] unit = "Rankine" -> F64Div(F64Mul(v, F64FromInt(5)), F64FromInt(9))

FromKelvin(unit, K) ==
    CASE unit = "Kelvin" -> K
      [] unit = "Celsius" -> F64Sub(K, F64Lit(27315, 2))
      [] unit = "Fahrenheit" ->
             F64Sub(F64Div(F64Mul(K, F64FromInt(9)), F64FromInt(5)), F64Lit(45967, 2))
      [] unit = "Rankine" -> F64Div(F64Mul(K, F64FromInt(9)), F64FromInt(5))

AffineThroughKelvin ==
    (pc = "converted" /\ dim = "TemperatureUnit") =>
        /\ Unit_to_base(dim, src_unit, src_value) = ToKelvin(src_unit, src_value)
        /\ dst_value = FromKelvin(dst_unit, ToKelvin(src_unit, src_value))
        /\ (src_unit = "Celsius" /\ src_value = F64FromInt(0) /\ dst_unit = "Kelvin") =>
               dst_value = F64Lit(27315, 2)
        /\ (src_unit = "Fahrenheit" /\ src_value = F64FromInt(32) /\ dst_unit = "Kelvin") =>
               dst_value = F64Lit(27315, 2)

AffineThroughKelvinSeen ==
    /\ pc = "converted"
    /\ dim = "TemperatureUnit"
    /\ src_unit = "Fahrenheit"
    /\ src_value = F64FromInt(32)
    /\ dst_unit = "Kelvin"
    /\ dst_value = F64Lit(27315, 2)

(***************************************************************************)
(* C7: from_str of the abbr, of the name and of the name_and_abbr of a     *)
(* variant U returns Some(U), that same variant, in every dimension.       *)
(***************************************************************************)
ParsesOwnOutput ==
    (parsed # Unset /\ text_origin[1] \in {"abbr", "name", "name_and_abbr"}) =>
        parsed = Some(text_origin[2])

ParsesOwnOutputSeen ==
    /\ dim = "MassUnit"
    /\ text_origin = <<"name_and_abbr", "PoundsMass">>
    /\ text = "Pounds (lb)"
    /\ parsed = Some("PoundsMass")

(***************************************************************************)
(* C8: from_str returns None for every string that is not exactly the      *)
(* abbr, the name or the name_and_abbr of a variant of the dimension; so   *)
(* "not-a-unit", "M", " m", "meters" and "Meters(m)" yield None for        *)
(* LengthUnit.                                                             *)
(***************************************************************************)
Forms(T) ==
    UNION {{Unit_abbr(T, u), Unit_name(T, u), Unit_name_and_abbr(T, u)} : u \in Variants(T)}

RejectsOtherStrings ==
    /\ (parsed # Unset /\ text \notin Forms(dim)) => parsed = None
    /\ (/\ parsed # Unset
        /\ dim = "LengthUnit"
        /\ text \in {"not-a-unit", "M", " m", "meters", "Meters(m)"}) => parsed = None

RejectsOtherStringsSeen ==
    /\ dim = "LengthUnit"
    /\ text_origin = <<"input">>
    /\ text = " m"
    /\ parsed = None

(***************************************************************************)
(* C9: within a dimension no two different variants have the same          *)
(* abbreviation, and no two have the same name.                            *)
(***************************************************************************)
DistinctAbbrsAndNames ==
    /\ text_origin[1] = "abbr" =>
           \A v \in Variants(dim) : v # text_origin[2] => Unit_abbr(dim, v) # text
    /\ text_origin[1] = "name" =>
           \A v \in Variants(dim) : v # text_origin[2] => Unit_name(dim, v) # text

DistinctAbbrsAndNamesSeen ==
    /\ dim = "LengthUnit"
    /\ text_origin = <<"abbr", "NauticalMiles">>
    /\ text = "nmi"
    /\ Unit_abbr(dim, "StatuteMiles") = "mi"

(***************************************************************************)
(* C10: name_and_abbr of a variant is its name, a space, "(", its abbr and *)
(* ")", as in "Meters (m)", in every dimension.                            *)
(***************************************************************************)
NameAndAbbrFormat ==
    text_origin[1] = "name_and_abbr" =>
        /\ text = Unit_name(dim, text_origin[2]) \o " (" \o Unit_abbr(dim, text_origin[2]) \o ")"
        /\ (dim = "LengthUnit" /\ text_origin[2] = "Meters") => text = "Meters (m)"

NameAndAbbrFormatSeen ==
    /\ dim = "LengthUnit"
    /\ text_origin = <<"name_and_abbr", "Meters">>
    /\ text = "Meters (m)"

(***************************************************************************)
(* C11: all_names, all_abbrs and all_names_and_abbrs each hold one entry   *)
(* per variant of the enum, in the order of declaration, entry i being the *)
(* name, the abbr, the name_and_abbr of the i-th declared variant; no      *)
(* variant is missing and none is listed twice.                            *)
(***************************************************************************)
Projection(kind, T, u) ==
    CASE kind = "all_names" -> Unit_name(T, u)
      [] kind = "all_abbrs" -> Unit_abbr(T, u)
      [] kind = "all_names_and_abbrs" -> Unit_name_and_abbr(T, u)

ListsFollowDeclaration ==
    listed # <<"none">> =>
        LET l == listed[2]
            d == Unit_declared(dim)
        IN  /\ Len(d) = Cardinality(Variants(dim))
            /\ {d[i] : i \in 1..Len(d)} = Variants(dim)
            /\ Len(l) = Len(d)
            /\ \A i \in 1..Len(l) : l[i] = Projection(listed[1], dim, d[i])
            /\ \A i, j \in 1..Len(l) : i # j => l[i] # l[j]

ListsFollowDeclarationSeen ==
    /\ dim = "PressureUnit"
    /\ listed[1] = "all_abbrs"
    /\ listed[2] = <<"Pa", "kPa", "MPa", "bar", "psi", "atm", "Torr">>

(***************************************************************************)
(* C12: default() of a dimension is its base unit (Meters, Kilograms,      *)
(* Seconds, Kelvin, MetersPerSecond, Newtons, Pascals): both conversion    *)
(* steps of the default variant are the identity, and no step of any other *)
(* variant is (each moves the magnitude 1).                                *)
(***************************************************************************)
DefaultIsTheBaseUnit ==
    pc = "converted" =>
        /\ Unit_default(dim) = BaseUnit(dim)
        /\ Unit_default(dim) \in Variants(dim)
        /\ src_unit = Unit_default(dim) =>
               /\ Unit_to_base(dim, src_unit, src_value) = src_value
               /\ Unit_from_base(dim, src_unit, src_value) = src_value
        /\ (src_unit # Unit_default(dim) /\ src_value = F64FromInt(1)) =>
               /\ ~F64Eq(Unit_to_base(dim, src_unit, src_value), src_value)
               /\ ~F64Eq(Unit_from_base(dim, src_unit, src_value), src_value)

DefaultIsTheBaseUnitSeen ==
    /\ pc = "converted"
    /\ dim = "TemperatureUnit"
    /\ Unit_default(dim) = "Kelvin"
    /\ src_unit = "Kelvin"
    /\ src_value = F64FromInt(1)
    /\ dst_unit = "Rankine"
    /\ dst_value = F64Lit(18, 1)


(***************************************************************************)
(* C13: a unit of another dimension is a fault, never a coercion.  For     *)
(* every wrapper and every UnitEnum whose tag is not the wrapper's, new,   *)
(* set and get end in the panic "Invalid unit for <X>Value"; the pair and  *)
(* the reading a wrapper holds always come from a unit of its own          *)
(* dimension, and the call that panicked produced no magnitude.            *)
(***************************************************************************)
MismatchIsAFault ==
    pc = "value" =>
        /\ \A unit \in UnitEnum :
               unit[1] # Value_tag(wrapper) =>
                   /\ \A value \in WrapperMagnitudes :
                          /\ Value_new(wrapper, value, unit)
                                 = <<"panic", InvalidUnit(wrapper)>>
                          /\ Value_set(wrapper, value, unit)
                                 = <<"panic", InvalidUnit(wrapper)>>
                   /\ supplied # <<"none">> =>
                          Value_get(wrapper, stored, unit)
                              = <<"panic", InvalidUnit(wrapper)>>
        /\ supplied # <<"none">> => supplied[3][1] = Value_tag(wrapper)
        /\ got # <<"none">> => got[1][1] = Value_tag(wrapper)
        /\ fault # <<"none">> =>
               /\ fault[1] = InvalidUnit(wrapper)
               /\ fault[3] # Value_tag(wrapper)
               /\ fault[2] = "new" => supplied = <<"none">>

MismatchIsAFaultSeen ==
    /\ wrapper = "LengthValue"
    /\ supplied = <<"new", F64FromInt(100), <<"Length", "Meters">>>>
    /\ fault = <<"Invalid unit for LengthValue", "get", "Mass">>
    /\ got = <<"none">>

\* The wrapper made by new(v, U) was read with get(U).
ReadAsConstructed ==
    /\ pc = "value"
    /\ supplied[1] = "new"
    /\ got # <<"none">>
    /\ got[1] = supplied[3]

IsDefaultUnit(unit) ==
    unit[2] = UnitEnum_default(Value_unit_type(wrapper))

(***************************************************************************)
(* C14, as stated: X::new(v, U).get(U).value equals v, exactly when U is   *)
(* the default unit of the dimension and within 1e-9 relative otherwise,   *)
(* for every wrapper, every unit U of its dimension and every magnitude v. *)
(***************************************************************************)
ConstructThenRead ==
    ReadAsConstructed =>
        IF IsDefaultUnit(got[1]) THEN F64Eq(got[2], supplied[2])
        ELSE WithinRel(got[2], supplied[2])

(***************************************************************************)
(* C14, amended: for every magnitude v that is zero or between 2^-900 and  *)
(* 2^900 in absolute value, X::new(v, U).get(U).value equals v exactly     *)
(* when U is the default unit, and otherwise is within 1e-9 * |v| of v in  *)
(* the wrappers whose conversions are scalings and within                  *)
(* 1e-9 * max(|v|, 1) of v in TemperatureValue.                            *)
(***************************************************************************)
ConstructThenReadScaledOrOffset ==
    (ReadAsConstructed /\ Moderate(supplied[2])) =>
        IF IsDefaultUnit(got[1]) THEN F64Eq(got[2], supplied[2])
        ELSE IF wrapper = "TemperatureValue"
             THEN WithinRelOrAbs(got[2], supplied[2])
             ELSE WithinRel(got[2], supplied[2])

\* TemperatureValue::new(0.0, Fahrenheit).get(Fahrenheit) is not 0.0.
ConstructThenReadOffsetSeen ==
    /\ ReadAsConstructed
    /\ wrapper = "TemperatureValue"
    /\ supplied = <<"new", F64FromInt(0), <<"Temperature", "Fahrenheit">>>>
    /\ ~F64Eq(got[2], supplied[2])
    /\ ~WithinRel(got[2], supplied[2])
    /\ WithinRelOrAbs(got[2], supplied[2])

\* The wrapper was last written by set(v, U) and then read with get(U).
ReadAsSet ==
    /\ pc = "value"
    /\ supplied[1] = "set"
    /\ got # <<"none">>
    /\ got[1] = supplied[3]

(***************************************************************************)
(* C15, as stated: after x.set(v, U) the call x.get(U).value equals v, for *)
(* every wrapper x in any prior state, every unit U of its dimension and   *)
(* every magnitude v.                                                      *)
(***************************************************************************)
SetThenRead ==
    ReadAsSet => F64Eq(got[2], supplied[2])

(***************************************************************************)
(* C15, amended: for every wrapper x in any prior state, every unit U of   *)
(* its dimension and every magnitude v that is zero or between 2^-900 and  *)
(* 2^900 in absolute value, after x.set(v, U) the call x.get(U).value      *)
(* equals v exactly when U is the default unit, and otherwise is within    *)
(* 1e-9 * |v| of v (1e-9 * max(|v|, 1) in TemperatureValue).               *)
(***************************************************************************)
SetThenReadScaledOrOffset ==
    (ReadAsSet /\ Moderate(supplied[2])) =>
        IF IsDefaultUnit(got[1]) THEN F64Eq(got[2], supplied[2])
        ELSE IF wrapper = "TemperatureValue"
             THEN WithinRelOrAbs(got[2], supplied[2])
             ELSE WithinRel(got[2], supplied[2])

\* LengthValue set(2.5, Inches), get(Inches) is 2.5000000000000004.
SetThenReadInexactSeen ==
    /\ ReadAsSet
    /\ wrapper = "LengthValue"
    /\ supplied = <<"set", F64Lit(25, 1), <<"Length", "Inches">>>>
    /\ ~F64Eq(got[2], supplied[2])
    /\ WithinRel(got[2], supplied[2])

\* A wrapper that new or set gave `value` in `unit` was read with get.
ReadOf(X, unit) ==
    /\ pc = "value"
    /\ wrapper = X
    /\ supplied # <<"none">>
    /\ supplied[3] = unit
    /\ got # <<"none">>

(***************************************************************************)
(* C16: a length of v Meters read back with get is v / 1000 in Kilometers  *)
(* and v x 3.28084 in Feet; for v = 100.0 these are the f64 values 0.1 and *)
(* 328.084.                                                                *)
(***************************************************************************)
MetersInKilometersAndFeet ==
    ReadOf("LengthValue", <<"Length", "Meters">>) =>
        /\ got[1] = <<"Length", "Kilometers">> =>
               /\ got[2] = F64Div(supplied[2], F64FromInt(1000))
               /\ supplied[2] = F64FromInt(100) => got[2] = F64Lit(1, 1)
        /\ got[1] = <<"Length", "Feet">> =>
               /\ got[2] = F64Mul(supplied[2], F64Lit(328084, 5))
               /\ supplied[2] = F64FromInt(100) => got[2] = F64Lit(328084, 3)

MetersInKilometersAndFeetSeen ==
    /\ ReadOf("LengthValue", <<"Length", "Meters">>)
    /\ supplied = <<"new", F64FromInt(100), <<"Length", "Meters">>>>
    /\ got = <<<<"Length", "Feet">>, F64Lit(328084, 3)>>

\* The f64 literal whose decimal digits are hi followed by the seven digits
\* of lo, with `scale` of them after the point (scale <= 18).
F64LitWide(hi, lo, scale) ==
    F64Div(F64Add(F64Mul(F64FromInt(hi), F64FromInt(10^7)), F64FromInt(lo)),
           F64Mul(F64FromInt(10^(scale \div 2)),
                  F64FromInt(10^(scale - scale \div 2))))

(***************************************************************************)
(* C17: a length of v Meters read back in Inches is v / 0.0254, and for    *)
(* v = 100.0 it is 3937.007874015748.  Both equalities are taken up to     *)
(* 1e-9 relative, which is finer than the four decimals of 3937.0079.      *)
(***************************************************************************)
MetersInInches ==
    (ReadOf("LengthValue", <<"Length", "Meters">>)
        /\ got[1] = <<"Length", "Inches">>) =>
        /\ WithinRel(got[2], F64Div(supplied[2], F64Lit(254, 4)))
        /\ supplied[2] = F64FromInt(100) =>
               WithinRel(got[2], F64LitWide(393700787, 4015748, 12))

(***************************************************************************)
(* C18: a mass of v Kilograms read back in PoundsMass is                   *)
(* v x 2.2046226218488, and for v = 100.0 it is 220.46226218488.  Both     *)
(* equalities are taken up to 1e-9 relative, which is finer than the six   *)
(* decimals of 220.462262.                                                 *)
(***************************************************************************)
KilogramsInPoundsMass ==
    (ReadOf("MassValue", <<"Mass", "Kilograms">>)
        /\ got[1] = <<"Mass", "PoundsMass">>) =>
        /\ WithinRel(got[2],
               F64Mul(supplied[2], F64LitWide(2204622, 6218488, 13)))
        /\ supplied[2] = F64FromInt(100) =>
               WithinRel(got[2], F64LitWide(2204622, 6218488, 11))

(***************************************************************************)
(* C19: the Mass dimension has a Grams unit, with 1 Kilogram = 1000 Grams: *)
(* a MassValue given v Kilograms reads v x 1000 in Grams, 100000.0 for     *)
(* v = 100.0.                                                              *)
(***************************************************************************)
KilogramsInGrams ==
    (pc = "value" /\ wrapper = "MassValue" /\ supplied # <<"none">>
        /\ supplied[3] = <<"Mass", "Kilograms">>) =>
        /\ "Grams" \in MassUnit
        /\ Value_get(wrapper, stored, <<"Mass", "Grams">>)
               = <<"ok", F64Mul(supplied[2], F64FromInt(1000))>>
        /\ supplied[2] = F64FromInt(100) =>
               Value_get(wrapper, stored, <<"Mass", "Grams">>)
                   = <<"ok", F64FromInt(100000)>>

\* The first step of convert, to the base unit, for a unit of wrapper X.
ToDefaultUnit(X, unit, value) ==
    IF Value_unit_type(X) \in Dimensions
    THEN Unit_to_base(Value_unit_type(X), unit[2], value)
    ELSE IF X = "BearingValue"
         THEN BearingUnit_bearing_degrees(unit[2], value)
         ELSE value

(***************************************************************************)
(* C20, as stated: construction performs no conversion; the magnitude held *)
(* by the object returned from new(v, U) is v itself, for every wrapper,   *)
(* every unit U and every magnitude v.                                     *)
(***************************************************************************)
ConstructionStoresAsGiven ==
    (pc = "value" /\ supplied[1] = "new") => stored = supplied[2]

(***************************************************************************)
(* C20, amended: construction converts to the default unit; the magnitude  *)
(* held by the object returned from new(v, U) is v converted from U to the *)
(* default unit of the dimension, which is v itself when U is the default  *)
(* unit.                                                                   *)
(***************************************************************************)
ConstructionStoresInDefaultUnit ==
    (pc = "value" /\ supplied[1] = "new") =>
        /\ stored = ToDefaultUnit(wrapper, supplied[3], supplied[2])
        /\ IsDefaultUnit(supplied[3]) => stored = supplied[2]

\* LengthValue::new(2.5, Kilometers) holds 2500.0.
ConstructionStoresInDefaultUnitSeen ==
    /\ pc = "value"
    /\ wrapper = "LengthValue"
    /\ supplied = <<"new", F64Lit(25, 1), <<"Length", "Kilometers">>>>
    /\ stored = F64FromInt(2500)
    /\ stored # supplied[2]

\* The default unit named for each wrapper of a dimension of units.rs.
StatedDefault(X) ==
    CASE X = "LengthValue"      -> "Meters"
      [] X = "MassValue"        -> "Kilograms"
      [] X = "TimeValue"        -> "Seconds"
      [] X = "TemperatureValue" -> "Kelvin"
      [] X = "VelocityValue"    -> "MetersPerSecond"
      [] X = "ForceValue"       -> "Newtons"
      [] X = "PressureValue"    -> "Pascals"
      [] OTHER                  -> UnitEnum_default(Value_unit_type(X))

GetReturned ==
    /\ pc = "value"
    /\ got' # <<"none">>
    /\ got' # got

(***************************************************************************)
(* C22: reading never mutates.  A get returns a new wrapper and leaves the *)
(* stored magnitude of x, and the pair it was last given, as they were; so *)
(* what a get returns is decided by the last new or set alone, whatever    *)
(* gets came in between.                                                   *)
(***************************************************************************)
ReadingNeverMutates ==
    [][GetReturned =>
           /\ stored' = stored
           /\ supplied' = supplied
           /\ got'[2] = Value_get(wrapper,
                            ToDefaultUnit(wrapper, supplied[3], supplied[2]),
                            got'[1])[2]]_vars

\* A get in Feet returned 328.084 and the wrapper still holds 100 Meters.
ReadingNeverMutatesSeen ==
    /\ pc = "value"
    /\ wrapper = "LengthValue"
    /\ supplied = <<"new", F64FromInt(100), <<"Length", "Meters">>>>
    /\ got = <<<<"Length", "Feet">>, F64Lit(328084, 3)>>
    /\ stored = F64FromInt(100)

Done(t) == pc = "threads" /\ thread[t].pc = "done"

RunAlone(call) ==
    CallResult(call, ToDefaultUnit(wrapper, supplied[3], supplied[2]))

(***************************************************************************)
(* C25: the conversion functions can be called concurrently without        *)
(* locking.  Under every interleaving of the threads' steps, each finished *)
(* call of convert, from_str or get (on the shared wrapper) has exactly    *)
(* the result it has when run alone, and the shared wrapper is unchanged.  *)
(***************************************************************************)
ConcurrentAsAlone ==
    pc = "threads" =>
        /\ stored = ToDefaultUnit(wrapper, supplied[3], supplied[2])
        /\ \A t \in Threads :
               /\ thread[t].pc = "loaded" => thread[t].local = stored
               /\ Done(t) => thread[t].result = RunAlone(thread[t].call)

\* One thread finished a get while the other was between its read of
\* self.value and its computation.
ConcurrentAsAloneSeen ==
    /\ Done("t1")
    /\ thread["t1"].call[1] = "get"
    /\ thread["t1"].result[1] = "ok"
    /\ thread["t2"].pc = "loaded"
    /\ thread["t2"].call # thread["t1"].call

ReadsCompose ==
    (pc = "value" /\ Len(got) = 4) =>
        WithinRelOrAbs(got[4], Value_get(wrapper, stored, got[3])[2])

(***************************************************************************)
(* C27, as stated: path independence.  For every dimension, all variants   *)
(* A, B, C of it and every magnitude v, B.convert(A.convert(v, B), C)      *)
(* equals A.convert(v, C) within a relative tolerance of 1e-9.             *)
(***************************************************************************)
OneHop == Unit_convert(dim, src_unit, src_value, hop_unit)

PathIndependentRelative ==
    pc = "hopped" => WithinRel(back_value, OneHop)

(***************************************************************************)
(* C27, amended: for every magnitude v that is zero or between 2^-900 and  *)
(* 2^900 in absolute value, the two-hop result is within 1e-9 * |w| of the *)
(* one-hop result w = A.convert(v, C) in the six dimensions whose          *)
(* conversions are scalings, and within 1e-9 * max(|w|, 1) of it in        *)
(* Temperature, whose conversions add offsets.                             *)
(***************************************************************************)
PathIndependentScaledOrOffset ==
    (pc = "hopped" /\ Moderate(src_value)) =>
        IF dim = "TemperatureUnit" THEN WithinRelOrAbs(back_value, OneHop)
        ELSE WithinRel(back_value, OneHop)

\* Two hops through a third temperature unit missed the one-hop result by more
\* than 1e-9 of it, and by less than 1e-9.
PathIndependentOffsetSeen ==
    /\ pc = "hopped"
    /\ dim = "TemperatureUnit"
    /\ src_unit # dst_unit
    /\ dst_unit # hop_unit
    /\ src_unit # hop_unit
    /\ Moderate(src_value)
    /\ ~WithinRel(back_value, OneHop)
    /\ WithinRelOrAbs(back_value, OneHop)

(***************************************************************************)
(* C28: in every dimension the textual forms of different variants are     *)
(* disjoint across kinds too: no abbr, name or name_and_abbr of a variant  *)
(* U is an abbr, name or name_and_abbr of another variant V.  So a string  *)
(* satisfies at most one arm of from_str, and from_str returns the variant *)
(* of that arm wherever the arm stands.                                    *)
(***************************************************************************)
FormsOf(T, u) == {Unit_abbr(T, u), Unit_name(T, u), Unit_name_and_abbr(T, u)}

\* the arms of T::from_str that unit_str satisfies, as the variants they return
Arms(T, unit_str) == {u \in Variants(T) : unit_str \in FormsOf(T, u)}

FormsDisjointAcrossKinds ==
    /\ text_origin[1] \in {"abbr", "name", "name_and_abbr"} =>
           Arms(dim, text) = {text_origin[2]}
    /\ text_origin # <<"none">> => Cardinality(Arms(dim, text)) <= 1
    /\ parsed # Unset => \A u \in Arms(dim, text) : parsed = Some(u)

\* from_str took the name of Hours, which no arm but that of Hours accepts,
\* although it is not the last arm.
FormsDisjointAcrossKindsSeen ==
    /\ dim = "TimeUnit"
    /\ text_origin = <<"name", "Hours">>
    /\ text = "Hours"
    /\ Arms(dim, text) = {"Hours"}
    /\ parsed = Some("Hours")

(***************************************************************************)
(* C29: the conversion through Kelvin agrees with the textbook formulas.   *)
(* For every c, Celsius.convert(c, Fahrenheit) is c * 9 / 5 + 32, and for  *)
(* every f, Fahrenheit.convert(f, Celsius) is (f - 32) * 5 / 9, each       *)
(* within 1e-9 * max(|formula|, 1); so -40 Celsius converts to -40         *)
(* Fahrenheit within that tolerance, and 0 Kelvin to exactly 0 Rankine.    *)
(***************************************************************************)
CelsiusToFahrenheit(c) ==
    F64Add(F64Div(F64Mul(c, F64FromInt(9)), F64FromInt(5)), F64FromInt(32))

FahrenheitToCelsius(f) ==
    F64Div(F64Mul(F64Sub(f, F64FromInt(32)), F64FromInt(5)), F64FromInt(9))

AgreesWithTextbook ==
    (pc = "converted" /\ dim = "TemperatureUnit") =>
        /\ (src_unit = "Celsius" /\ dst_unit = "Fahrenheit") =>
               WithinRelOrAbs(dst_value, CelsiusToFahrenheit(src_value))
        /\ (src_unit = "Fahrenheit" /\ dst_unit = "Celsius") =>
               WithinRelOrAbs(dst_value, FahrenheitToCelsius(src_value))
        /\ (src_unit = "Celsius" /\ dst_unit = "Fahrenheit" /\ src_value = F64FromInt(-40)) =>
               WithinRelOrAbs(dst_value, F64FromInt(-40))
        /\ (src_unit = "Kelvin" /\ dst_unit = "Rankine" /\ src_value = F64FromInt(0)) =>
               dst_value = F64FromInt(0)

\* -40 Celsius was converted to Fahrenheit: not to -40.0 itself, but next to it.
AgreesWithTextbookSeen ==
    /\ pc = "converted"
    /\ dim = "TemperatureUnit"
    /\ src_unit = "Celsius"
    /\ dst_unit = "Fahrenheit"
    /\ src_value = F64FromInt(-40)
    /\ dst_value # F64FromInt(-40)
    /\ WithinRelOrAbs(dst_value, F64FromInt(-40))

(***************************************************************************)
(* C30: a failed set changes nothing.  When x.set(v, unit) is called with  *)
(* a unit of another dimension and ends in the invalid-unit panic, the     *)
(* stored magnitude of x is what it was before the call.                   *)
(***************************************************************************)
SetPanicked ==
    /\ fault = <<"none">>
    /\ fault' # <<"none">>
    /\ fault'[2] = "set"

FailedSetChangesNothing ==
    [][SetPanicked => /\ fault'[1] = InvalidUnit(wrapper)
                      /\ fault'[3] # Value_tag(wrapper)
                      /\ stored' = stored
                      /\ supplied' = supplied]_vars

\* A length made of 100 m was set with a unit of mass: it still holds 100 m.
FailedSetChangesNothingSeen ==
    /\ wrapper = "LengthValue"
    /\ fault = <<"Invalid unit for LengthValue", "set", "Mass">>
    /\ supplied = <<"new", F64FromInt(100), <<"Length", "Meters">>>>
    /\ stored = F64FromInt(100)
=============================================================================
